---- MODULE Spec2Model ----
(***************************************************************************)
(* Model of the auto_responder agent core: the LangGraph reasoning loop of *)
(* app/agents/base_agent.py (agent -> action -> agent ... ->               *)
(* process_response -> END), the result object built by                    *)
(* execute_with_tools, and the entry guards of the three stage operations  *)
(* (IntentClassifierAgent.process, ContextRetrieverAgent.process,          *)
(* ResponseGeneratorAgent.process).                                        *)
(*                                                                         *)
(* Text is a sequence of lexemes.  "sp" is one blank, "nl" one newline,    *)
(* "t1"/"t2" are runs of word characters (\w+), "FA" is the literal        *)
(* "Final Answer:", "A" the literal "Action:", "AI" the literal            *)
(* "Action Input:".  Python's Optional[T] is a sequence of length at most  *)
(* one: None is <<>>, a value x is <<x>>.                                  *)
(*                                                                         *)
(* The graph engine is taken to do what _create_workflow wires: it runs    *)
(* the entry node, follows the edge leaving each node, hands every node    *)
(* the AgentState the previous node returned, and ainvoke returns the      *)
(* state that reached END.  The completion (self.llm) and the tool         *)
(* executor are external: each call either returns or raises.              *)
(*                                                                         *)
(* The steps of ContextRetrieverAgent.process (query expansion, search,    *)
(* deduplication, relevance filter, result formatting) and the tools       *)
(* KeywordAnalysisTool and ToneAnalysisTool are modelled as operators      *)
(* computed as the code computes them.  Each is run by a specification of  *)
(* its own (ExpandSpec, PassageSpec, KeywordSpec, ToneSpec) whose initial  *)
(* states draw the inputs and which leaves the variables of the agent      *)
(* operations at rest; Spec leaves the variables of the tools at rest.     *)
(***************************************************************************)
EXTENDS Integers, Sequences, FiniteSets, TLC

\* ---------------------------------------------------------------- bounds
\* Cap on the number of AgentActions one run may record.
MaxActs == 2
\* Longest free-form completion text (in lexemes) the completion returns.
MaxTextLen == 2
\* Most expanded queries / deduplicated passages one retrieval handles.
MaxQueries == 2
MaxPassages == 2
\* Most lines an expansion completion holds.
MaxLines == 2
\* Longest email (in words, marks and blanks) handed to the keyword tool.
MaxWords == 3

\* ------------------------------------------------------ Optional / truth
None == <<>>
Some(x) == <<x>>
Val(o) == o[1]

\* Python truthiness of an Optional[str]: None and "" are both falsy.
TruthyStr(o) == o # None /\ Val(o) # <<>>
\* Python truthiness of an Optional[object]: only None is falsy.
TruthyObj(o) == o # None

\* ------------------------------------------------------------------ text
Words == {"t1", "t2"}
Spaces == {"sp", "nl"}
Lexemes == Words \cup Spaces \cup {"FA", "A", "AI"}
\* The lexemes free-form completion text is built from.
FreeLexemes == {"t1", "sp", "nl", "FA", "A"}

RECURSIVE LStrip(_)
LStrip(s) == IF s = <<>> THEN s
             ELSE IF Head(s) \in Spaces THEN LStrip(Tail(s)) ELSE s

RECURSIVE RStrip(_)
RStrip(s) == IF s = <<>> THEN s
             ELSE IF s[Len(s)] \in Spaces THEN RStrip(SubSeq(s, 1, Len(s) - 1)) ELSE s

\* str.strip()
Strip(s) == RStrip(LStrip(s))

\* str.replace("Final Answer:", "")
RemoveFinalMarker(s) == SelectSeq(s, LAMBDA t : t # "FA")

\* "Action:" in response
HasActionMarker(s) == \E i \in 1..Len(s) : s[i] = "A"

\* The regular expression  Action: (\w+)\nAction Input: (.*?)(?:\n|$)
\* matches at i with the tool name ending at j:
\*   s[i] = "Action:", one blank, a non-empty run of word lexemes i+2..j,
\*   a newline, "Action Input:", one blank.
ActionMatchAt(s, i, j) ==
    /\ i >= 1 /\ j >= i + 2 /\ j + 3 <= Len(s)
    /\ s[i] = "A"
    /\ s[i + 1] = "sp"
    /\ \A k \in (i + 2)..j : s[k] \in Words
    /\ s[j + 1] = "nl"
    /\ s[j + 2] = "AI"
    /\ s[j + 3] = "sp"

ActionMatches(s) ==
    {p \in (1..Len(s)) \X (1..Len(s)) : ActionMatchAt(s, p[1], p[2])}

\* re.search returns the leftmost match.
FirstActionMatch(s) ==
    CHOOSE p \in ActionMatches(s) : \A q \in ActionMatches(s) : p[1] <= q[1]

\* group(2): the lazy (.*?) stops before the first newline, or at the end.
InputEnd(s, from) ==
    IF \E k \in from..Len(s) : s[k] = "nl"
    THEN (CHOOSE k \in from..Len(s) :
              s[k] = "nl" /\ \A m \in from..(k - 1) : s[m] # "nl") - 1
    ELSE Len(s)

\* BaseAgent._parse_llm_response
ParseLLMResponse(raw) ==
    LET response == Strip(raw) IN
    IF HasActionMarker(response) /\ ActionMatches(response) # {}
    THEN LET p == FirstActionMatch(response) IN
         [kind |-> "action",
          tool |-> Strip(SubSeq(response, p[1] + 2, p[2])),
          tool_input |-> Strip(SubSeq(response, p[2] + 4, InputEnd(response, p[2] + 4)))]
    ELSE [kind |-> "finish",
          output |-> Strip(RemoveFinalMarker(response))]

\* --------------------------------------------------- completion outputs
RECURSIVE TextsUpTo(_)
TextsUpTo(n) ==
    IF n = 0 THEN {<<>>}
    ELSE LET shorter == TextsUpTo(n - 1) IN
         shorter \cup {Append(s, t) : s \in {x \in shorter : Len(x) = n - 1}, t \in FreeLexemes}

FreeTexts == TextsUpTo(MaxTextLen)

ActionCore(tool) == <<"A", "sp", tool, "nl", "AI", "sp">>

\* Well-formed tool requests, alone and surrounded by other output.
ActionTexts ==
    {pre \o ActionCore(tool) \o inp \o post :
        pre \in {<<>>, <<"FA", "nl">>, <<"t2", "sp">>},
        tool \in Words,
        inp \in {<<>>, <<"t1", "sp">>},
        post \in {<<>>, <<"nl", "FA", "t2">>}}

\* Tool requests with one lexeme missing.
BrokenActionTexts ==
    {SubSeq(ActionCore("t1"), 1, k - 1) \o SubSeq(ActionCore("t1"), k + 1, 6) \o <<"t2">> :
        k \in 1..6}

LLMTexts == FreeTexts \cup ActionTexts \cup BrokenActionTexts


\* ------------------------------------------------------------------ state
VARIABLES
    agent,        \* which agent object the call is made on
    pc,           \* position: idle, the graph node about to run, end, returned
    op,           \* the public operation in progress
    caller,       \* who called execute_with_tools: direct, tone, template
    msg,          \* the AgentState handed to the stage operation
    state,        \* the AgentState the workflow is running on
    lastResponse, \* completion text of the agent step whose routing is pending
    endVia,       \* the edge by which the workflow reached END
    loopResult,   \* AgentResult last returned by execute_with_tools
    result,       \* AgentResult returned by the public operation
    llmCalls,     \* completion calls made by the operation so far
    toolCalls,    \* tool executor calls made by the operation so far
    searchCalls,  \* vector searches made by the operation so far
    loopRuns,     \* workflow runs started by the operation so far
    invoked       \* tool names handed to the tool executor in this run, in order

\* The variables of the agent operations.
loopVars == <<agent, pc, op, caller, msg, state, lastResponse, endVia, loopResult,
              result, llmCalls, toolCalls, searchCalls, loopRuns, invoked>>

\* The steps of ContextRetrieverAgent.process and the tools, each run on
\* its own inputs.
VARIABLES
    stage,            \* how far the pipeline or tool under study has run
    original_query,   \* process: search_query, the primary query
    expansion,        \* outcome of the expansion completion call
    expanded_queries, \* process: the list _expand_query returned
    searched,         \* the queries handed to _search_vector_db, in order
    all_passages,     \* process: all_contexts, all_sources, all_scores
    max_contexts,     \* self.max_contexts
    unique_contexts,  \* process: what _deduplicate_contexts returned
    scorings,         \* what the scoring completion did for each unique context
    filter_results,   \* what ContextFilterTool._run returned
    retrieved,        \* the AgentResult of the retrieval
    email_text,       \* the email handed to KeywordAnalysisTool._run
    keyword_result,   \* what KeywordAnalysisTool._run returned
    tone_mapping,     \* the lists ToneAnalysisTool.TONE_MAPPING holds now
    tone_input,       \* arguments of the last call of ToneAnalysisTool._run
    tone_result,      \* what that call returned
    vector_store,     \* self.vector_store: None, or what a search of it gives
    search_results,   \* what _search_vector_db returned for each query searched
    component         \* the fields of the function or object studied on its own

expandVars == <<original_query, expansion, expanded_queries, searched>>
passageVars == <<all_passages, max_contexts, unique_contexts, scorings,
                 filter_results, retrieved>>
keywordVars == <<email_text, keyword_result>>
toneVars == <<tone_mapping, tone_input, tone_result>>
searchVars == <<vector_store, search_results>>
restVars == <<searchVars, component>>

\* _generate_search_query: state.email_content, state.subject, the outcome
\* of the query completion call and what the function returned.
query_email == component.email_content
subject == component.subject
query_response == component.query_response
search_query == component.search_query

\* ResponseTemplateTool._run: the arguments of the call and how it ended.
template_input == component.template_input
template_result == component.template_result

\* The VectorService object (client, collection, embedding_function,
\* _initialized) and the calls made on it with how each ended.
service == component.service
history == component.history

\* retry_operation: its parameters max_retries and delay (in seconds); the
\* wrapper's position (idle, loop, exhausted, done), its loop variable and
\* its last_exception; how each call of func in this call of the wrapper
\* ended; the arguments of time.sleep in this call; the number of calls of
\* the wrapper so far and how the latest ended.
max_retries == component.max_retries
delay == component.delay
retry_pc == component.retry_pc
attempt == component.attempt
last_exception == component.last_exception
attempts == component.attempts
sleeps == component.sleeps
wrapper_calls == component.wrapper_calls
wrapper_result == component.wrapper_result

toolVars == <<stage, expandVars, passageVars, keywordVars, toneVars, restVars>>

vars == <<loopVars, toolVars>>

\* The agent classes: TestAgent built with tools=[] or with some tools, and
\* the three stage agents, which are always built with tools.
Agents == {"test_agent", "test_agent_with_tools",
           "intent_classifier", "context_retriever", "response_generator"}

\* self.tool_executor = ToolExecutor(tools) if tools else None
HasToolExecutor(a) == a # "test_agent"

\* Message contents offered to the stage operations: absent, "", " ", "t1".
Contents == {None, Some(<<>>), Some(<<"sp">>), Some(<<"t1">>)}
Intents == {None, Some("question")}

\* AgentState(email_content=input_text, metadata=context or {})
InitialState(input_text) ==
    [email_content  |-> Some(input_text),
     messages       |-> <<>>,
     actions        |-> <<>>,
     action_results |-> <<>>,
     current_action |-> None,
     final_answer   |-> None,
     response       |-> None,
     metadata       |-> None,
     error          |-> None]

\* AgentResult(success, data, error); an error message is a one-lexeme text.
Failure(e) == [success |-> FALSE, data |-> None, error |-> Some(<<e>>)]
Success(d) == [success |-> TRUE, data |-> Some(d), error |-> None]

\* No operation has been called on the agent.
LoopIdle ==
    /\ pc = "idle"
    /\ op = "none"
    /\ caller = "none"
    /\ msg = [email_content |-> None, intent |-> None]
    /\ state = InitialState(<<>>)
    /\ lastResponse = None
    /\ endVia = "none"
    /\ loopResult = None
    /\ result = None
    /\ llmCalls = 0
    /\ toolCalls = 0
    /\ searchCalls = 0
    /\ loopRuns = 0
    /\ invoked = <<>>

\* No retrieval step has run.
ExpandIdle ==
    /\ original_query = <<>>
    /\ expansion = None
    /\ expanded_queries = <<>>
    /\ searched = <<>>

\* self.max_contexts = 10
DefaultMaxContexts == 10

NoPassages == [contexts |-> <<>>, sources |-> <<>>, scores |-> <<>>]

\* No passage has been gathered.
PassageIdle ==
    /\ all_passages = NoPassages
    /\ max_contexts = DefaultMaxContexts
    /\ unique_contexts = NoPassages
    /\ scorings = <<>>
    /\ filter_results = None
    /\ retrieved = None

\* No email has been handed to the keyword tool.
KeywordIdle ==
    /\ email_text = <<>>
    /\ keyword_result = None

\* ToneAnalysisTool.TONE_MAPPING
TONE_MAPPING ==
    [question   |-> <<"helpful", "informative", "professional">>,
     complaint  |-> <<"apologetic", "understanding", "solution-focused">>,
     escalation |-> <<"urgent", "professional", "reassuring">>,
     request    |-> <<"accommodating", "professional", "helpful">>]

\* The tone tool has not been called.
ToneIdle ==
    /\ tone_mapping = TONE_MAPPING
    /\ tone_input = None
    /\ tone_result = None

\* No vector store is attached (vector_service.collection is None before
\* VectorService.initialize) and nothing has been searched.
SearchIdle ==
    /\ vector_store = None
    /\ search_results = <<>>

\* VectorService.__init__
NewService ==
    [client |-> None, embedding_function |-> None, collection |-> None,
     initialized |-> FALSE]

\* def retry_operation(max_retries: int = 3, delay: float = 1.0)
DefaultMaxRetries == 3
DefaultDelay == 1

\* Nothing is studied on its own.
NoComponent == [kind |-> "none"]

RestIdle ==
    /\ SearchIdle
    /\ component = NoComponent

Init ==
    /\ agent \in Agents
    /\ LoopIdle
    /\ stage = "none"
    /\ ExpandIdle
    /\ PassageIdle
    /\ KeywordIdle
    /\ ToneIdle
    /\ RestIdle

\* ------------------------------------------------------- the workflow
\* BaseAgent._agent_step: one completion call, parsed into the state.
AgentStep ==
    /\ UNCHANGED toolVars
    /\ pc = "agent"
    /\ llmCalls' = llmCalls + 1
    /\ \/ \* self.llm.ainvoke raises
          /\ state' = [state EXCEPT !.error = Some(<<"Agent step failed">>)]
          /\ lastResponse' = None
       \/ \E raw \in LLMTexts :
             LET parsed == ParseLLMResponse(raw)
                 said == [state EXCEPT !.messages = Append(@, "ai")]
             IN
             /\ parsed.kind = "action" => Len(state.actions) < MaxActs
             /\ lastResponse' = Some(raw)
             /\ state' =
                  IF parsed.kind = "action"
                  THEN LET act == [tool |-> parsed.tool, tool_input |-> parsed.tool_input] IN
                       [said EXCEPT !.current_action = Some(act),
                                    !.actions = Append(@, act)]
                  ELSE [said EXCEPT !.final_answer = Some(parsed.output)]
    /\ pc' = "route"
    /\ UNCHANGED <<agent, op, caller, msg, endVia, loopResult, result,
                   toolCalls, searchCalls, loopRuns, invoked>>

\* Routing that sends a decide phase which produced nothing back to act
\* instead of ending the run.
RouteAgentStepNoFallback(st) ==
    IF TruthyStr(st.error) THEN "error"
    ELSE IF TruthyStr(st.final_answer) THEN "final"
    ELSE "action"

\* BaseAgent._route_agent_step
RouteAgentStep(st) ==
    IF TruthyStr(st.error) THEN "error"
    ELSE IF TruthyStr(st.final_answer) THEN "final"
    ELSE IF TruthyObj(st.current_action) THEN "action"
    ELSE "error"

\* The mapping of add_conditional_edges("agent", ...).
ConditionalEdge(r) ==
    CASE r = "action" -> "action"
      [] r = "final"  -> "process_response"
      [] r = "error"  -> "end"

\* An action node wired straight to the routing, skipping the agent node.
ActionEdgeSkipsAgent == "route"

\* add_edge("action", "agent")
ActionEdge == "agent"

\* The conditional edge leaving the agent node.
RouteStep ==
    /\ UNCHANGED toolVars
    /\ pc = "route"
    /\ pc' = ConditionalEdge(RouteAgentStep(state))
    /\ endVia' = IF pc' = "end" THEN "error" ELSE endVia
    /\ UNCHANGED <<agent, op, caller, msg, state, lastResponse, loopResult,
                   result, llmCalls, toolCalls, searchCalls, loopRuns, invoked>>

\* BaseAgent._execute_action
ExecuteAction ==
    /\ UNCHANGED toolVars
    /\ pc = "action"
    /\ IF ~TruthyObj(state.current_action) \/ ~HasToolExecutor(agent)
       THEN /\ state' = [state EXCEPT !.error = Some(<<"No action to execute or no tool executor">>)]
            /\ UNCHANGED <<toolCalls, invoked>>
       ELSE /\ toolCalls' = toolCalls + 1
            /\ invoked' = Append(invoked, Val(state.current_action).tool)
            /\ \/ \* the tool executor returns a result
                  state' = [state EXCEPT !.action_results = Append(@, "result"),
                                         !.messages = Append(@, "observation"),
                                         !.current_action = None]
               \/ \* the tool executor raises
                  state' = [state EXCEPT !.error = Some(<<"Action execution failed">>)]
    /\ pc' = ActionEdge
    /\ lastResponse' = None
    /\ UNCHANGED <<agent, op, caller, msg, endVia, loopResult, result,
                   llmCalls, searchCalls, loopRuns>>

\* Tool names listed newest first.
ToolsUsedNewestFirst(actions) ==
    [i \in 1..Len(actions) |-> actions[Len(actions) + 1 - i].tool]

\* [action.tool for action in state.actions]
ToolsUsed(actions) == [i \in 1..Len(actions) |-> actions[i].tool]

\* BaseAgent._process_response
ProcessResponse ==
    /\ UNCHANGED toolVars
    /\ pc = "process_response"
    /\ state' =
         IF ~TruthyStr(state.final_answer)
         THEN [state EXCEPT !.error = Some(<<"No final answer to process">>)]
         ELSE [state EXCEPT !.response = state.final_answer,
                            !.metadata = Some([steps_taken |-> Len(state.actions),
                                               tools_used  |-> ToolsUsed(state.actions)])]
    /\ pc' = "end"
    /\ endVia' = "process_response"
    /\ UNCHANGED <<agent, op, caller, msg, lastResponse, loopResult, result,
                   llmCalls, toolCalls, searchCalls, loopRuns, invoked>>

\* A result built without looking at final_state.error.
WorkflowResultIgnoresError(final_state) ==
    Success([response |-> final_state.response,
             actions  |-> final_state.actions,
             metadata |-> final_state.metadata])

\* BaseAgent.execute_with_tools, after workflow.ainvoke has returned.
WorkflowResult(final_state) ==
    IF TruthyStr(final_state.error)
    THEN [success |-> FALSE, data |-> None, error |-> final_state.error]
    ELSE Success([response |-> final_state.response,
                  actions  |-> final_state.actions,
                  metadata |-> final_state.metadata])

\* TestAgent.process: execute_with_tools(state.email_content or "", ...),
\* up to the start of workflow.ainvoke.
StartExecuteWithTools ==
    /\ UNCHANGED toolVars
    /\ pc = "idle"
    /\ agent \in {"test_agent", "test_agent_with_tools"}
    /\ \E c \in {None, Some(<<"t1">>)} :
          /\ msg' = [email_content |-> c, intent |-> None]
          /\ state' = InitialState(IF c = None THEN <<>> ELSE Val(c))
    /\ op' = "execute_with_tools"
    /\ caller' = "direct"
    /\ pc' = "agent"
    /\ loopRuns' = loopRuns + 1
    /\ UNCHANGED <<agent, lastResponse, endVia, loopResult, result,
                   llmCalls, toolCalls, searchCalls, invoked>>

\* BaseAgent.execute_with_tools from the return of workflow.ainvoke: the
\* AgentResult is handed to the public caller, or to
\* ResponseGeneratorAgent.process after its tone run / its template run.
ReturnFromWorkflow ==
    /\ UNCHANGED toolVars
    /\ pc = "end"
    /\ loopResult' = Some(WorkflowResult(state))
    /\ IF caller = "direct"
       THEN /\ result' = loopResult'
            /\ pc' = "returned"
       ELSE /\ pc' = "after_run"
            /\ UNCHANGED result
    /\ UNCHANGED <<agent, op, caller, msg, state, lastResponse, endVia,
                   llmCalls, toolCalls, searchCalls, loopRuns, invoked>>

\* ------------------------------------------------- the stage operations
\* A guard that tests only for None and lets the empty string through.
NoEmailContentNoneOnly(m) == m.email_content = None

\* "if not state.email_content"
NoEmailContent(m) == ~TruthyStr(m.email_content)

\* BaseAgent and IntentClassifierAgent define no get_tool method, so
\* self.get_tool(...) raises AttributeError.
HasGetTool == FALSE

\* IntentClassifierAgent.process
ClassifyProcess ==
    /\ UNCHANGED toolVars
    /\ pc = "idle"
    /\ agent = "intent_classifier"
    /\ \E c \in Contents, i \in Intents :
          /\ msg' = [email_content |-> c, intent |-> i]
          /\ IF NoEmailContent(msg')
             THEN /\ result' = Some(Failure("No email content provided for intent classification"))
                  /\ UNCHANGED llmCalls
             ELSE IF ~HasGetTool
             THEN /\ result' = Some(Failure("Intent classification failed"))
                  /\ UNCHANGED llmCalls
             ELSE \* IntentClassifierTool._run: one completion, a default on failure
                  /\ llmCalls' = llmCalls + 1
                  /\ \E intent \in {"question", "other"} :
                        result' = Some(Success([intent |-> intent]))
    /\ op' = "classify"
    /\ pc' = "returned"
    /\ UNCHANGED <<agent, caller, state, lastResponse, endVia, loopResult,
                   toolCalls, searchCalls, loopRuns, invoked>>

\* ContextRetrieverAgent.process: one completion for the search query, one
\* for the expansion, one search per expanded query, one scoring completion
\* per deduplicated passage.  Every sub-step recovers from its own failure.
RetrieveProcess ==
    /\ UNCHANGED toolVars
    /\ pc = "idle"
    /\ agent = "context_retriever"
    /\ \E c \in Contents, i \in Intents :
          /\ msg' = [email_content |-> c, intent |-> i]
          /\ IF NoEmailContent(msg')
             THEN /\ result' = Some(Failure("No email content provided for context retrieval"))
                  /\ UNCHANGED <<llmCalls, searchCalls>>
             ELSE \E queries \in 1..MaxQueries, unique \in 0..MaxPassages :
                  \E kept \in 0..unique :
                     /\ llmCalls' = llmCalls + 2 + unique
                     /\ searchCalls' = searchCalls + queries
                     /\ result' = Some(Success([after_deduplication |-> unique,
                                                after_filtering     |-> kept]))
    /\ op' = "retrieve"
    /\ pc' = "returned"
    /\ UNCHANGED <<agent, caller, state, lastResponse, endVia, loopResult,
                   toolCalls, loopRuns, invoked>>

\* ResponseGeneratorAgent.validate_input
ValidateGenerateInput(m) == TruthyStr(m.email_content) /\ TruthyObj(m.intent)

\* ResponseGeneratorAgent.process, up to its first execute_with_tools call.
GenerateProcess ==
    /\ UNCHANGED toolVars
    /\ pc = "idle"
    /\ agent = "response_generator"
    /\ \E c \in Contents, i \in Intents :
          /\ msg' = [email_content |-> c, intent |-> i]
          /\ IF ~ValidateGenerateInput(msg')
             THEN /\ result' = Some(Failure("Invalid input state"))
                  /\ pc' = "returned"
                  /\ UNCHANGED <<caller, state, loopRuns>>
             ELSE /\ state' = InitialState(Val(c))
                  /\ caller' = "tone"
                  /\ pc' = "agent"
                  /\ loopRuns' = loopRuns + 1
                  /\ UNCHANGED result
    /\ op' = "generate"
    /\ UNCHANGED <<agent, lastResponse, endVia, loopResult,
                   llmCalls, toolCalls, searchCalls, invoked>>

\* ResponseGeneratorAgent.process between the return of one
\* execute_with_tools call and the next call: a failed run ends the
\* operation; after the tone run the template run starts on a fresh state;
\* after the template run the response is generated.  Of a successful
\* result the code reads only data.get("output", {}), a key the data of
\* execute_with_tools never has.
GenerateAfterRun ==
    /\ UNCHANGED toolVars
    /\ pc = "after_run"
    /\ IF ~Val(loopResult).success
       THEN /\ result' = Some(Failure(IF caller = "tone" THEN "Tone analysis failed"
                                      ELSE "Template selection failed"))
            /\ pc' = "returned"
            /\ UNCHANGED <<caller, state, lastResponse, endVia, loopResult, loopRuns, invoked>>
       ELSE IF caller = "tone"
       THEN /\ state' = InitialState(Val(msg.email_content))
            /\ caller' = "template"
            /\ pc' = "agent"
            /\ lastResponse' = None
            /\ endVia' = "none"
            /\ loopResult' = None
            /\ loopRuns' = loopRuns + 1
            /\ invoked' = <<>>
            /\ UNCHANGED result
       ELSE /\ pc' = "generate_response"
            /\ loopResult' = None
            /\ UNCHANGED <<caller, state, lastResponse, endVia, loopRuns, result, invoked>>
    /\ UNCHANGED <<agent, op, msg, llmCalls, toolCalls, searchCalls>>

\* ResponseGeneratorAgent.process from _generate_response to its return.
GenerateResponse ==
    /\ UNCHANGED toolVars
    /\ pc = "generate_response"
    /\ llmCalls' = llmCalls + 1
    /\ \/ \* the completion raises: _generate_response returns None
          result' = Some(Failure("Failed to generate response"))
       \/ \E content \in {<<>>, <<"t1">>} :
             result' = IF content = <<>>
                       THEN Some(Failure("Failed to generate response"))
                       ELSE Some(Success([response |-> content]))
    /\ pc' = "returned"
    /\ UNCHANGED <<agent, op, caller, msg, state, lastResponse, endVia,
                   loopResult, toolCalls, searchCalls, loopRuns, invoked>>

Next ==
    \/ StartExecuteWithTools
    \/ AgentStep
    \/ RouteStep
    \/ ExecuteAction
    \/ ProcessResponse
    \/ ReturnFromWorkflow
    \/ ClassifyProcess
    \/ RetrieveProcess
    \/ GenerateProcess
    \/ GenerateAfterRun
    \/ GenerateResponse

Spec == Init /\ [][Next]_vars

\* One workflow run, started by TestAgent.process.
LoopNext ==
    \/ StartExecuteWithTools
    \/ AgentStep
    \/ RouteStep
    \/ ExecuteAction
    \/ ProcessResponse
    \/ ReturnFromWorkflow

\* The workflow engine runs the next node whenever there is one: ainvoke
\* awaits each node and follows its outgoing edge.
LiveSpec == Init /\ [][LoopNext]_vars /\ WF_vars(LoopNext)


\* ------------------------------------------------- query expansion
\* (ContextRetrieverAgent.process, steps 1 to 3)
\* Query and completion text is written in characters: "1" is a digit from
\* 1 to 5, "." a full stop, "sp" one blank, "nl" one newline, "a" and "b"
\* are runs of letters.

\* expanded_queries[:5]
ExpansionLimit == 5

Min(x, y) == IF x <= y THEN x ELSE y

\* s[:n]
Take(s, n) == SubSeq(s, 1, Min(n, Len(s)))

\* s[n:]
Drop(s, n) == SubSeq(s, n + 1, Len(s))

\* str.split('\n')
RECURSIVE SplitLines(_)
SplitLines(s) ==
    IF \A i \in 1..Len(s) : s[i] # "nl" THEN <<s>>
    ELSE LET i == CHOOSE i \in 1..Len(s) :
                     s[i] = "nl" /\ \A j \in 1..(i - 1) : s[j] # "nl"
         IN <<Take(s, i - 1)>> \o SplitLines(Drop(s, i))

\* line.startswith(('1.', '2.', '3.', '4.', '5.'))
StartsWithNumber(line) == Len(line) >= 2 /\ line[1] = "1" /\ line[2] = "."

\* '. ' in line
HasDotSpace(line) == \E i \in 1..(Len(line) - 1) : line[i] = "." /\ line[i + 1] = "sp"

\* line.split('. ', 1)[1]
AfterDotSpace(line) ==
    LET i == CHOOSE i \in 1..(Len(line) - 1) :
                 /\ line[i] = "." /\ line[i + 1] = "sp"
                 /\ \A j \in 1..(i - 1) : ~(line[j] = "." /\ line[j + 1] = "sp")
    IN Drop(line, i + 1)

\* The loop of QueryExpansionTool._run over the lines of the completion.
RECURSIVE ParseLines(_)
ParseLines(lines) ==
    IF lines = <<>> THEN <<>>
    ELSE LET line == Strip(Head(lines)) IN
         IF line # <<>> /\ ~StartsWithNumber(line)
         THEN <<IF HasDotSpace(line) THEN AfterDotSpace(line) ELSE line>>
              \o ParseLines(Tail(lines))
         ELSE ParseLines(Tail(lines))

\* QueryExpansionTool._run, its "expanded_queries": the parsed lines, or
\* the query alone when the completion call (or reading its content) raises.
QueryExpansionNoFallback(query, outcome) ==
    IF outcome.raised THEN <<>>
    ELSE Take(ParseLines(SplitLines(Strip(outcome.content))), ExpansionLimit)

QueryExpansionRun(query, outcome) ==
    IF outcome.raised THEN <<query>>
    ELSE Take(ParseLines(SplitLines(Strip(outcome.content))), ExpansionLimit)

KeepDuplicates(queries) == queries

\* list(dict.fromkeys(queries)) keeps the first occurrence of each string.
RECURSIVE DictFromKeys(_)
DictFromKeys(queries) ==
    IF queries = <<>> THEN <<>>
    ELSE LET init == DictFromKeys(Take(queries, Len(queries) - 1))
             last == queries[Len(queries)]
         IN IF \E i \in 1..Len(init) : init[i] = last THEN init
            ELSE Append(init, last)

ExpandedQueriesWithoutPrimary(query, outcome) ==
    DictFromKeys(QueryExpansionNoFallback(query, outcome))

\* ContextRetrieverAgent._expand_query
ExpandedQueries(query, outcome) ==
    DictFromKeys(<<query>> \o QueryExpansionRun(query, outcome))

\* Primary queries: "", "a", "b", "a b".
PrimaryQueries == {<<>>, <<"a">>, <<"b">>, <<"a", "sp", "b">>}

\* One line of an expansion completion: a query, bare or padded with
\* blanks, numbered "1. " or "b. ", ending in a full stop, or no query.
LineQueries == {<<"a">>, <<"b">>, <<"a", "sp", "b">>}
ExpansionLines ==
    {<<>>, <<"sp">>, <<"1", ".">>, <<".", "sp">>}
    \cup LineQueries
    \cup {<<"sp">> \o q \o <<"sp">> : q \in LineQueries}
    \cup {<<"1", ".", "sp">> \o q : q \in LineQueries}
    \cup {<<"b", ".", "sp">> \o q : q \in LineQueries}
    \cup {q \o <<".">> : q \in LineQueries}

\* Completion contents of at most n lines, joined by newlines.
RECURSIVE ExpansionContents(_)
ExpansionContents(n) ==
    IF n = 0 THEN {<<>>}
    ELSE ExpansionLines
         \cup {c \o <<"nl">> \o l : c \in ExpansionContents(n - 1), l \in ExpansionLines}

\* What the expansion completion call does: it raises, or returns content.
ExpansionOutcomes ==
    {[raised |-> TRUE, content |-> <<>>]}
    \cup {[raised |-> FALSE, content |-> c] : c \in ExpansionContents(MaxLines)}

\* process, step 2: expanded_queries = await self._expand_query(...)
ExpandQuery ==
    /\ stage = "query"
    /\ \E outcome \in ExpansionOutcomes :
          /\ expansion' = Some(outcome)
          /\ expanded_queries' = ExpandedQueries(original_query, outcome)
    /\ stage' = "expanded"
    /\ UNCHANGED <<loopVars, restVars, original_query, searched, passageVars,
                   keywordVars, toneVars>>

\* Most documents one similarity search returns.
MaxResults == 2

\* What vector_store.similarity_search_with_score does for one query: it
\* raises, or returns (document, score) pairs; a document's metadata may
\* lack the key 'source'.
Raises == [raised |-> TRUE, results |-> <<>>]
Returns(results) == [raised |-> FALSE, results |-> results]

\* The search of `query` in `store` for at most k documents: without a
\* store the attribute lookup raises; a store returns nothing for a query
\* it holds no document for.
SimilaritySearch(store, query, k) ==
    IF store = None THEN Raises
    ELSE IF query \in DOMAIN Val(store)
         THEN [Val(store)[query] EXCEPT !.results = Take(@, k)]
    ELSE Returns(<<>>)

\* doc.metadata.get('source', 'Unknown')
SourceOf(doc) == IF doc.source = None THEN "Unknown" ELSE Val(doc.source)

\* VectorSearchTool._run, as _search_vector_db returns it.
VectorSearchRun(outcome) ==
    IF outcome.raised
    THEN [contexts |-> <<>>, sources |-> <<>>, scores |-> <<>>,
          total_results |-> 0, failed |-> TRUE]
    ELSE [contexts |-> [i \in 1..Len(outcome.results) |-> outcome.results[i].page_content],
          sources  |-> [i \in 1..Len(outcome.results) |-> SourceOf(outcome.results[i])],
          scores   |-> [i \in 1..Len(outcome.results) |-> outcome.results[i].score],
          total_results |-> Len(outcome.results), failed |-> FALSE]

\* A loop that keeps only the results of the query searched last.
KeepLatest(all, found) ==
    [contexts |-> found.contexts, sources |-> found.sources, scores |-> found.scores]

\* if search_results["contexts"]: all_contexts.extend(...), all_sources
\* .extend(...), all_scores.extend(...)
Extend(all, found) ==
    IF found.contexts # <<>>
    THEN [contexts |-> all.contexts \o found.contexts,
          sources  |-> all.sources \o found.sources,
          scores   |-> all.scores \o found.scores]
    ELSE all

\* process, step 3, one turn of the loop: the next expanded query is
\* searched and what was found is added to the raw lists; a search that
\* raises returns no passages (VectorSearchTool._run, _search_vector_db).
SearchVectorDb ==
    /\ stage = "expanded"
    /\ Len(searched) < Len(expanded_queries)
    /\ LET query == expanded_queries[Len(searched) + 1]
           found == VectorSearchRun(SimilaritySearch(vector_store, query, max_contexts))
       IN /\ searched' = Append(searched, query)
          /\ search_results' = Append(search_results, found)
          /\ all_passages' = Extend(all_passages, found)
    /\ UNCHANGED <<loopVars, stage, original_query, expansion, expanded_queries,
                   max_contexts, unique_contexts, scorings, filter_results,
                   retrieved, keywordVars, toneVars, vector_store, component>>

\* process, end of the loop of step 3.
SearchDone ==
    /\ stage = "expanded"
    /\ Len(searched) = Len(expanded_queries)
    /\ stage' = "searched"
    /\ UNCHANGED <<loopVars, restVars, expandVars, passageVars, keywordVars, toneVars>>

ExpandInit ==
    /\ agent = "context_retriever"
    /\ LoopIdle
    /\ stage = "query"
    /\ original_query \in PrimaryQueries
    /\ expansion = None
    /\ expanded_queries = <<>>
    /\ searched = <<>>
    /\ PassageIdle
    /\ KeywordIdle
    /\ ToneIdle
    /\ RestIdle

ExpandNext ==
    \/ ExpandQuery
    \/ SearchVectorDb
    \/ SearchDone

ExpandSpec == ExpandInit /\ [][ExpandNext]_vars


\* ------------------------------------------- deduplication and filtering
\* (ContextRetrieverAgent.process, steps 4 to 6)
\* A passage text is kept as its first 100 characters (head) and the
\* characters after them (tail).  Scores are written in tenths: 6.0 is 60.

\* score = 5.0, the default when scoring a passage fails
DefaultScore == 50
\* ctx["score"] >= 6.0
RelevanceThreshold == 60
\* max(1, min(10, score))
LowestScore == 10
HighestScore == 100
\* scores[i] if i < len(scores) else 0.5
UnknownScore == 5

Max(x, y) == IF x >= y THEN x ELSE y

\* context[:100]
FirstHundred(context) == context.head

\* context_key = context[:100].strip()
DedupKey(context) == Strip(FirstHundred(context))

ReplacesOnTie(new, old) == new >= old

\* scores[i] > unique_scores[existing_idx]
Replaces(new, old) == new > old

\* _deduplicate_contexts after the first n turns of its loop; keys[k] is
\* the key that seen_contexts maps to index k.
RECURSIVE DeduplicateUpTo(_, _)
DeduplicateUpTo(all, n) ==
    IF n = 0
    THEN [contexts |-> <<>>, sources |-> <<>>, scores |-> <<>>, keys |-> <<>>]
    ELSE LET u == DeduplicateUpTo(all, n - 1)
             context == all.contexts[n]
             context_key == DedupKey(context)
             seen == {k \in 1..Len(u.keys) : u.keys[k] = context_key}
         IN IF seen = {}
            THEN [contexts |-> Append(u.contexts, context),
                  sources  |-> Append(u.sources, IF n <= Len(all.sources)
                                                 THEN all.sources[n] ELSE "Unknown"),
                  scores   |-> Append(u.scores, IF n <= Len(all.scores)
                                                THEN all.scores[n] ELSE UnknownScore),
                  keys     |-> Append(u.keys, context_key)]
            ELSE LET existing_idx == CHOOSE k \in seen : TRUE IN
                 IF /\ n <= Len(all.scores)
                    /\ existing_idx <= Len(u.scores)
                    /\ Replaces(all.scores[n], u.scores[existing_idx])
                 THEN [u EXCEPT !.contexts[existing_idx] = context,
                                !.sources[existing_idx] = all.sources[n],
                                !.scores[existing_idx] = all.scores[n]]
                 ELSE u

Reverse(seq) == [i \in 1..Len(seq) |-> seq[Len(seq) + 1 - i]]

DeduplicateNewestFirst(all) ==
    LET u == DeduplicateUpTo(all, Len(all.contexts))
    IN [contexts |-> Reverse(u.contexts), sources |-> Reverse(u.sources),
        scores |-> Reverse(u.scores)]

\* ContextRetrieverAgent._deduplicate_contexts
DeduplicateContexts(all) ==
    LET u == DeduplicateUpTo(all, Len(all.contexts))
    IN [contexts |-> u.contexts, sources |-> u.sources, scores |-> u.scores]

\* The score ContextFilterTool._run gives one passage: the completion
\* raises, or its text is no number (float raises ValueError), or the
\* number is clamped to 1..10.
ScoreOf(outcome) ==
    IF outcome.raised \/ ~outcome.numeric THEN DefaultScore
    ELSE Max(LowestScore, Min(HighestScore, outcome.value))

SortAscending(scored) == scored

\* scored_contexts.sort(key=lambda x: x["score"], reverse=True): a stable
\* sort, equal scores keep their order.
RECURSIVE SortDescending(_)
SortDescending(scored) ==
    IF scored = <<>> THEN <<>>
    ELSE LET x == Head(scored)
             rest == SortDescending(Tail(scored))
             Higher(e) == e.score > x.score
             NotHigher(e) == e.score <= x.score
         IN SelectSeq(rest, Higher) \o <<x>> \o SelectSeq(rest, NotHigher)

RECURSIVE SumScores(_)
SumScores(scored) ==
    IF scored = <<>> THEN 0 ELSE Head(scored).score + SumScores(Tail(scored))

\* ctx["score"] >= 6.0
IsRelevant(ctx) == ctx.score >= RelevanceThreshold

\* ContextFilterTool._run; outcomes[i] is what the completion call for
\* contexts[i] does.  The average is rounded down to a tenth.
ContextFilterRun(contexts, outcomes) ==
    LET scored_contexts ==
            [i \in 1..Len(contexts) |->
                [context |-> contexts[i], score |-> ScoreOf(outcomes[i]), index |-> i - 1]]
        filtered_contexts == SelectSeq(SortDescending(scored_contexts), IsRelevant)
        n == Len(filtered_contexts)
    IN [filtered_contexts |-> [i \in 1..n |-> filtered_contexts[i].context],
        scores            |-> [i \in 1..n |-> filtered_contexts[i].score],
        original_indices  |-> [i \in 1..n |-> filtered_contexts[i].index],
        total_filtered    |-> n,
        avg_score         |-> IF n > 0 THEN SumScores(filtered_contexts) \div n ELSE 0,
        error             |-> None]

\* ContextRetrieverAgent._filter_contexts
FilterContexts(tool_result) ==
    [contexts |-> tool_result.filtered_contexts, scores |-> tool_result.scores]

FormatWithoutCut(unique, filtered, all, cap) ==
    [contexts |-> filtered.contexts,
     sources  |-> Take(unique.sources, Len(filtered.contexts)),
     scores   |-> filtered.scores,
     total_contexts  |-> Len(filtered.contexts),
     retrieval_stats |-> [total_retrieved     |-> Len(all.contexts),
                          after_deduplication |-> Len(unique.contexts),
                          after_filtering     |-> Len(filtered.contexts),
                          final_count         |-> Len(filtered.contexts)]]

\* process, step 6: the data of the successful result.
FormatResults(unique, filtered, all, cap) ==
    LET final_contexts == Take(filtered.contexts, cap)
        final_sources == Take(unique.sources, Len(final_contexts))
        final_scores == Take(filtered.scores, Len(final_contexts))
    IN [contexts |-> final_contexts,
        sources  |-> final_sources,
        scores   |-> final_scores,
        total_contexts  |-> Len(final_contexts),
        retrieval_stats |-> [total_retrieved     |-> Len(all.contexts),
                             after_deduplication |-> Len(unique.contexts),
                             after_filtering     |-> Len(filtered.contexts),
                             final_count         |-> Len(final_contexts)]]

\* Passage texts: "a", " a", "a" followed by more text after the first
\* hundred characters, "b", and a blank passage.
PassageTexts ==
    {[head |-> <<"a">>, tail |-> <<>>],
     [head |-> <<"sp", "a">>, tail |-> <<>>],
     [head |-> <<"a">>, tail |-> <<"b">>],
     [head |-> <<"b">>, tail |-> <<>>],
     [head |-> <<"sp">>, tail |-> <<>>]}
PassageSources == {"s1", "s2"}
\* Similarity scores of the vector search.
VectorScores == {1, 2}

\* What the searches of step 3 can have gathered: equally long lists of
\* contexts, sources and scores (VectorSearchTool._run fills the three
\* together).
PassageLists ==
    UNION {{[contexts |-> c, sources |-> s, scores |-> v] :
                c \in [1..n -> PassageTexts],
                s \in [1..n -> PassageSources],
                v \in [1..n -> VectorScores]} : n \in 0..MaxPassages}

\* What the completion call scoring one passage does: it raises, returns
\* text that is no number, or returns the number 0, 6.0 or 11.
ScoringOutcomes ==
    {[raised |-> TRUE,  numeric |-> FALSE, value |-> 0],
     [raised |-> FALSE, numeric |-> FALSE, value |-> 0]}
    \cup {[raised |-> FALSE, numeric |-> TRUE, value |-> v] : v \in {0, 60, 110}}

\* process, step 4
Deduplicate ==
    /\ stage = "found"
    /\ unique_contexts' = DeduplicateContexts(all_passages)
    /\ stage' = "deduped"
    /\ UNCHANGED <<loopVars, restVars, expandVars, keywordVars, toneVars,
                   all_passages, max_contexts, scorings,
                   filter_results, retrieved>>

\* process, step 5: one completion call for each unique context
Filter ==
    /\ stage = "deduped"
    /\ \E outcomes \in [1..Len(unique_contexts.contexts) -> ScoringOutcomes] :
          /\ scorings' = outcomes
          /\ filter_results' = Some(ContextFilterRun(unique_contexts.contexts, outcomes))
    /\ stage' = "filtered"
    /\ UNCHANGED <<loopVars, restVars, expandVars, keywordVars, toneVars,
                   all_passages, max_contexts, unique_contexts,
                   retrieved>>

\* process, step 6 and the return of the successful result
Format ==
    /\ stage = "filtered"
    /\ retrieved' = Some(Success(FormatResults(unique_contexts,
                                               FilterContexts(Val(filter_results)),
                                               all_passages, max_contexts)))
    /\ stage' = "finished"
    /\ UNCHANGED <<loopVars, restVars, expandVars, keywordVars, toneVars,
                   all_passages, max_contexts, unique_contexts,
                   scorings, filter_results>>

PassageInit ==
    /\ agent = "context_retriever"
    /\ LoopIdle
    /\ ExpandIdle
    /\ KeywordIdle
    /\ ToneIdle
    /\ RestIdle
    /\ stage = "found"
    /\ all_passages \in PassageLists
    /\ max_contexts \in {1, DefaultMaxContexts}
    /\ unique_contexts = NoPassages
    /\ scorings = <<>>
    /\ filter_results = None
    /\ retrieved = None

PassageNext ==
    \/ Deduplicate
    \/ Filter
    \/ Format

PassageSpec == PassageInit /\ [][PassageNext]_vars


\* ------------------------------------------------------ keyword analysis
\* (KeywordAnalysisTool of app/agents/intent_classifier.py)
\* Email text is a sequence of words, punctuation marks and blanks ("sp");
\* the string is their concatenation.

\* KeywordAnalysisTool.INTENT_KEYWORDS; a keyword is a text, "sp" its blanks.
INTENT_KEYWORDS ==
    [question |-> <<
        <<"how">>, <<"what">>, <<"when">>, <<"where">>, <<"why">>,
        <<"which">>, <<"who">>, <<"can", "sp", "you">>,
        <<"could", "sp", "you">>, <<"would", "sp", "you">>,
        <<"do", "sp", "you", "sp", "know">>,
        <<"help", "sp", "me", "sp", "understand">>, <<"clarify">>,
        <<"explain">>, <<"?">>, <<"wondering">>, <<"curious">>,
        <<"confused">>, <<"unclear">>
     >>,
     complaint |-> <<
        <<"disappointed">>, <<"frustrated">>, <<"angry">>, <<"upset">>,
        <<"dissatisfied">>, <<"problem">>, <<"issue">>, <<"bug">>,
        <<"error">>, <<"broken">>, <<"not", "sp", "working">>,
        <<"terrible">>, <<"awful">>, <<"horrible">>, <<"worst">>,
        <<"bad", "sp", "experience">>, <<"complain">>, <<"complaint">>,
        <<"unacceptable">>, <<"poor", "sp", "service">>
     >>,
     escalation |-> <<
        <<"urgent">>, <<"emergency">>, <<"asap">>, <<"immediately">>,
        <<"critical">>, <<"manager">>, <<"supervisor">>, <<"escalate">>,
        <<"higher", "sp", "up">>, <<"legal", "sp", "action">>, <<"lawsuit">>,
        <<"attorney">>, <<"lawyer">>, <<"unresolved">>,
        <<"no", "sp", "response">>, <<"ignored">>, <<"deadline">>
     >>,
     request |-> <<
        <<"please">>, <<"can", "sp", "you">>, <<"could", "sp", "you">>,
        <<"would", "sp", "you">>, <<"need">>, <<"want">>, <<"require">>,
        <<"request">>, <<"asking", "sp", "for">>, <<"looking", "sp", "for">>,
        <<"help", "sp", "with">>, <<"assistance">>, <<"support">>,
        <<"provide">>, <<"send">>
     >>]

\* KeywordAnalysisTool.URGENCY_KEYWORDS
URGENCY_KEYWORDS ==
    [high |-> <<
        <<"urgent">>, <<"emergency">>, <<"asap">>, <<"immediately">>,
        <<"critical">>, <<"deadline">>, <<"time-sensitive">>, <<"rush">>,
        <<"priority">>
     >>,
     medium |-> <<
        <<"soon">>, <<"quickly">>, <<"prompt">>, <<"timely">>,
        <<"important">>, <<"needs", "sp", "attention">>,
        <<"follow", "sp", "up">>
     >>,
     low |-> <<
        <<"when", "sp", "convenient">>, <<"no", "sp", "rush">>,
        <<"whenever">>, <<"at", "sp", "your", "sp", "convenience">>,
        <<"low", "sp", "priority">>, <<"informational">>
     >>]

\* The order in which the loop of _run meets the levels of URGENCY_KEYWORDS.
UrgencyLevels == <<"high", "medium", "low">>

\* str.lower() of one word
Lower(l) ==
    CASE l = "URGENT" -> "urgent"
      [] l = "This"   -> "this"
      [] l = "I"      -> "i"
      [] OTHER        -> l

\* email_content.lower()
ToLower(text) == [i \in 1..Len(text) |-> Lower(text[i])]

\* The one-word keywords that are substrings of a lower-case word: the
\* word itself and, of the words used here, "when" in "whenever" and
\* "complain" in "complaint".
Inside(l) ==
    CASE l = "whenever"  -> {"whenever", "when"}
      [] l = "complaint" -> {"complaint", "complain"}
      [] OTHER           -> {l}

\* keyword in content_lower
KeywordIn(keyword, content) ==
    \E i \in 1..(Len(content) - Len(keyword) + 1) :
       IF Len(keyword) = 1 THEN keyword[1] \in Inside(content[i])
       ELSE \A j \in 1..Len(keyword) : content[i + j - 1] = keyword[j]

\* any(keyword in content_lower for keyword in keywords)
AnyKeywordIn(keywords, content) ==
    \E k \in 1..Len(keywords) : KeywordIn(keywords[k], content)

\* if keyword in ["urgent", "emergency", "asap", "complaint"]: score += 2
KeywordWeight(keyword) ==
    IF keyword \in {<<"urgent">>, <<"emergency">>, <<"asap">>, <<"complaint">>}
    THEN 2 ELSE 1

\* The score one intent's keywords give the content.
RECURSIVE ScoreKeywords(_, _)
ScoreKeywords(keywords, content) ==
    IF keywords = <<>> THEN 0
    ELSE (IF KeywordIn(Head(keywords), content) THEN KeywordWeight(Head(keywords)) ELSE 0)
         + ScoreKeywords(Tail(keywords), content)

NeverStops(level) == FALSE

\* if level == "high": break
StopsAt(level) == level = "high"

\* The urgency loop of _run from its k-th level on.
RECURSIVE UrgencyFrom(_, _, _)
UrgencyFrom(content, k, urgency) ==
    IF k > Len(UrgencyLevels) THEN urgency
    ELSE LET level == UrgencyLevels[k] IN
         IF AnyKeywordIn(URGENCY_KEYWORDS[level], content)
         THEN IF StopsAt(level) THEN level ELSE UrgencyFrom(content, k + 1, level)
         ELSE UrgencyFrom(content, k + 1, urgency)

\* KeywordAnalysisTool._run: its intent_scores and urgency.
KeywordAnalysisRun(email_content) ==
    LET content_lower == ToLower(email_content)
    IN [intent_scores |-> [intent \in DOMAIN INTENT_KEYWORDS |->
                              ScoreKeywords(INTENT_KEYWORDS[intent], content_lower)],
        urgency       |-> UrgencyFrom(content_lower, 1, "low")]

\* "This is absolutely terrible! I want a manager immediately!"
ExampleEmail ==
    <<"This", "sp", "is", "sp", "absolutely", "sp", "terrible", "!", "sp",
      "I", "sp", "want", "sp", "a", "sp", "manager", "sp", "immediately", "!">>

\* The words of the emails analysed.
EmailLexemes == {"sp", "!", "URGENT", "rush", "priority", "soon", "no", "low",
                 "whenever", "complaint", "hello"}

EmailTexts ==
    {ExampleEmail} \cup UNION {[1..n -> EmailLexemes] : n \in 0..MaxWords}

\* keyword_tool._run(email_content)
KeywordAnalysis ==
    /\ stage = "text"
    /\ keyword_result' = Some(KeywordAnalysisRun(email_text))
    /\ stage' = "analyzed"
    /\ UNCHANGED <<loopVars, restVars, expandVars, passageVars, toneVars, email_text>>

KeywordInit ==
    /\ agent = "intent_classifier"
    /\ LoopIdle
    /\ ExpandIdle
    /\ PassageIdle
    /\ ToneIdle
    /\ RestIdle
    /\ stage = "text"
    /\ email_text \in EmailTexts
    /\ keyword_result = None

KeywordNext == KeywordAnalysis

KeywordSpec == KeywordInit /\ [][KeywordNext]_vars


\* --------------------------------------------------------- tone analysis
\* (ToneAnalysisTool of app/agents/response_generator.py)
\* ResponseGeneratorAgent builds one ToneAnalysisTool; every call of its
\* _run reads the lists that TONE_MAPPING holds at that time.  Confidence
\* is written in tenths.

\* ToneAnalysisTool.NEGATIVE_INDICATORS
NEGATIVE_INDICATORS ==
    <<<<"frustrated">>, <<"disappointed">>, <<"angry">>, <<"upset">>, <<"terrible">>,
      <<"awful">>, <<"horrible">>, <<"unacceptable">>, <<"disgusted">>, <<"furious">>>>

\* ToneAnalysisTool.POSITIVE_INDICATORS
POSITIVE_INDICATORS ==
    <<<<"thank">>, <<"appreciate">>, <<"great">>, <<"excellent">>, <<"wonderful">>,
      <<"pleased">>, <<"satisfied">>, <<"happy">>, <<"love">>, <<"impressed">>>>

\* urgency_indicators of _run
UrgencyIndicators ==
    <<<<"urgent">>, <<"asap">>, <<"immediately">>, <<"emergency">>, <<"critical">>>>

\* sum(1 for word in indicators if word in content_lower)
RECURSIVE CountIndicators(_, _)
CountIndicators(indicators, content) ==
    IF indicators = <<>> THEN 0
    ELSE (IF KeywordIn(Head(indicators), content) THEN 1 ELSE 0)
         + CountIndicators(Tail(indicators), content)

\* tone in base_tones
HasTone(base_tones, tone) == \E i \in 1..Len(base_tones) : base_tones[i] = tone

\* base_tones after the sentiment adjustment of _run: insert(0, ...) and
\* append(...) on the list itself.
AdjustTones(base_tones, negative_count, positive_count) ==
    IF negative_count > positive_count /\ negative_count > 0
    THEN LET apologetic == IF ~HasTone(base_tones, "apologetic")
                           THEN <<"apologetic">> \o base_tones ELSE base_tones
         IN IF ~HasTone(apologetic, "understanding")
            THEN Append(apologetic, "understanding") ELSE apologetic
    ELSE IF positive_count > negative_count /\ positive_count > 0
    THEN IF ~HasTone(base_tones, "friendly")
         THEN Append(base_tones, "friendly") ELSE base_tones
    ELSE base_tones

\* ToneAnalysisTool._run on the lists mapping holds: what it returns, and
\* what mapping holds afterwards.  self.TONE_MAPPING.get(intent, ...)
\* returns the list the mapping holds, not a copy, so the adjustment
\* changes the mapping; for an unknown intent the list is a fresh one.
ToneAnalysisRun(mapping, email_content, intent, sender_history) ==
    LET content_lower == ToLower(email_content)
        negative_count == CountIndicators(NEGATIVE_INDICATORS, content_lower)
        positive_count == CountIndicators(POSITIVE_INDICATORS, content_lower)
        known == intent \in DOMAIN mapping
        base_tones == AdjustTones(IF known THEN mapping[intent] ELSE <<"professional">>,
                                  negative_count, positive_count)
    IN [returned |->
           [primary_tone        |-> base_tones[1],
            secondary_tones     |-> Tail(base_tones),
            emotional_sentiment |-> IF negative_count > positive_count THEN "negative"
                                    ELSE IF positive_count > 0 THEN "positive"
                                    ELSE "neutral",
            urgency_detected    |-> AnyKeywordIn(UrgencyIndicators, content_lower),
            vip_customer        |-> IF sender_history # None
                                    THEN Val(sender_history).vip_status ELSE FALSE,
            tone_confidence     |-> Min(10, (Len(base_tones) + negative_count
                                             + positive_count) * 2)],
        mapping |-> IF known THEN [mapping EXCEPT ![intent] = base_tones] ELSE mapping]

\* The emails, intents and sender histories the tone tool is called with.
ToneLexemes == {"frustrated", "thank"}
ToneTexts == {<<"URGENT">>} \cup UNION {[1..n -> ToneLexemes] : n \in 0..MaxTextLen}
ToneIntents == {"question", "complaint", "request", "other"}
SenderHistories == {None, Some([vip_status |-> TRUE])}

\* One call of tone_tool._run(email_content, intent, sender_history).
ToneAnalysis ==
    /\ stage = "tone"
    /\ \E email_content \in ToneTexts, intent \in ToneIntents,
          sender_history \in SenderHistories :
          LET run == ToneAnalysisRun(tone_mapping, email_content, intent, sender_history)
          IN /\ tone_input' = Some([email_content  |-> email_content,
                                    intent         |-> intent,
                                    sender_history |-> sender_history])
             /\ tone_result' = Some(run.returned)
             /\ tone_mapping' = run.mapping
    /\ UNCHANGED <<loopVars, restVars, stage, expandVars, passageVars, keywordVars>>

ToneInit ==
    /\ agent = "response_generator"
    /\ LoopIdle
    /\ ExpandIdle
    /\ PassageIdle
    /\ KeywordIdle
    /\ stage = "tone"
    /\ ToneIdle
    /\ RestIdle

ToneNext == ToneAnalysis

ToneSpec == ToneInit /\ [][ToneNext]_vars


\* ================================================================ claims
\* Positions inside a workflow run, before END.
LoopPcs == {"agent", "route", "action", "process_response"}
\* Positions at which the workflow run has reached END.
EndedPcs == {"end", "after_run", "returned"}

\* C1: in every reachable state of a reasoning-loop run final_answer and
\* error are never both set.
C1_FinalAnswerErrorExclusive ==
    ~(state.final_answer # None /\ state.error # None)

\* C2: when a decide phase ends with no error, no pending action and no
\* (non-empty) final answer, the caller of execute_with_tools receives a
\* failure result, never a success result.
C2_NothingDecidedIsFailure ==
    (/\ loopResult # None
     /\ state.error = None
     /\ state.current_action = None
     /\ state.final_answer \in {None, Some(<<>>)})
    => /\ ~Val(loopResult).success
       /\ Val(loopResult).error # None

\* C3: after every act invocation current_action is cleared, whether the
\* capability call succeeded or failed.
C3_ActClearsPendingAction ==
    [][pc = "action" => state'.current_action = None]_vars

\* C4: once error is set in a run's state the run makes no further
\* completion call and no further tool call; its next transition ends the
\* run.
C4_ErrorIsTerminal ==
    [][(pc \in LoopPcs /\ state.error # None)
          => (llmCalls' = llmCalls /\ toolCalls' = toolCalls /\ pc' = "end")]_vars

\* The priority the routing is specified to follow.
ExpectedRoute(st) ==
    CASE st.error \notin {None, Some(<<>>)}        -> "ERROR"
      [] OTHER -> CASE st.final_answer \notin {None, Some(<<>>)} -> "FINAL"
                    [] OTHER -> CASE st.current_action # None -> "ACT"
                                  [] OTHER -> "ERROR"

\* C5: route is total and pure: in every reachable state it yields exactly
\* one of ACT, FINAL, ERROR by the priority error, final answer, pending
\* action, else ERROR; the workflow follows it and routing changes no field
\* of the state.
C5_RouteTotalPure ==
    /\ [](RouteAgentStep(state) \in {"action", "final", "error"})
    /\ [][pc = "route" =>
            /\ state' = state
            /\ pc' = (CASE ExpectedRoute(state) = "ACT"   -> "action"
                        [] ExpectedRoute(state) = "FINAL" -> "process_response"
                        [] ExpectedRoute(state) = "ERROR" -> "end")]_vars

\* A decide phase that produced nothing has been routed to END.
C5_Witness ==
    /\ pc = "end" /\ endVia = "error"
    /\ state.error = None /\ state.current_action = None
    /\ state.final_answer = Some(<<>>)

\* Text with neither an action marker nor a "Final Answer:" marker.
PlainText(raw) == \A i \in 1..Len(raw) : raw[i] \notin {"A", "AI", "FA"}

\* C6: when a decide phase returns non-blank text with neither an action
\* marker nor a "Final Answer:" marker, that text (up to surrounding
\* blanks) becomes the final answer, the next step is finalize, not act,
\* and the run ends in DONE with the text as the response.
C6_PlainTextIsFinalAnswer ==
    (/\ lastResponse # None
     /\ PlainText(Val(lastResponse))
     /\ Strip(Val(lastResponse)) # <<>>)
    => /\ state.final_answer = Some(Strip(Val(lastResponse)))
       /\ pc # "action"
       /\ pc \in EndedPcs =>
             /\ endVia = "process_response"
             /\ state.response = Some(Strip(Val(lastResponse)))

\* C7: every act step is followed by one decide re-entry, which is followed
\* by routing, and every run that was started reaches END.
C7_ActReentersDecideAndRunEnds ==
    /\ [][pc = "action" => pc' = "agent"]_vars
    /\ [][pc = "agent" => pc' = "route"]_vars
    /\ (pc \in LoopPcs) ~> (pc = "end")

\* A run that took as many act steps as the bound allows has ended.
C7_Witness ==
    /\ pc = "end"
    /\ Len(state.action_results) = MaxActs

\* C8: a failure inside decide or act becomes an error-set state and the
\* caller of execute_with_tools receives success=false with error set and
\* data absent; in every result data is present exactly when success is
\* true.
C8_FailuresBecomeResults ==
    /\ loopResult # None =>
          /\ Val(loopResult).success <=> Val(loopResult).data # None
          /\ state.error # None =>
                /\ ~Val(loopResult).success
                /\ Val(loopResult).error # None
                /\ Val(loopResult).data = None
    /\ result # None => (Val(result).success <=> Val(result).data # None)

\* A tool raised and the caller got the failure result.
C8_Witness ==
    /\ loopResult # None
    /\ state.error = Some(<<"Action execution failed">>)
    /\ ~Val(loopResult).success

\* C9: when a run ends in DONE the response equals final_answer,
\* steps_taken equals the number of recorded action results and tools_used
\* lists the invoked capability names in invocation order.
C9_DoneMetadata ==
    (pc \in EndedPcs /\ endVia = "process_response")
    => /\ state.response = state.final_answer
       /\ state.metadata # None
       /\ Val(state.metadata).steps_taken = Len(state.action_results)
       /\ Val(state.metadata).tools_used = invoked

\* A run is DONE after invoking t1 and then t2.
C9_Witness ==
    /\ pc \in EndedPcs /\ endVia = "process_response"
    /\ invoked = << <<"t1">>, <<"t2">> >>

\* C10: with absent or empty message content classify, retrieve and
\* generate return success=false at once: no workflow run is started and no
\* completion, search or tool call is made.
C10_NoContentFailsImmediately ==
    (/\ op \in {"classify", "retrieve", "generate"}
     /\ msg.email_content \in {None, Some(<<>>)})
    => /\ pc = "returned"
       /\ ~Val(result).success
       /\ loopRuns = 0 /\ llmCalls = 0 /\ searchCalls = 0 /\ toolCalls = 0

\* retrieve was called with the empty string as content.
C10_Witness ==
    /\ op = "retrieve" /\ pc = "returned"
    /\ msg.email_content = Some(<<>>)
    /\ ~Val(result).success

\* C11: for a message with non-empty content classify returns success=true
\* with a classification as data (the default one when the completion
\* fails or is malformed).
C11_ClassifyNonEmptySucceeds ==
    (/\ op = "classify" /\ pc = "returned"
     /\ TruthyStr(msg.email_content))
    => /\ Val(result).success
       /\ Val(result).data # None

\* C12: for every primary query and every outcome of the expansion
\* completion (failure included) the expanded list has the primary query as
\* its first element and holds no string twice.
C12_PrimaryFirstNoDuplicates ==
    stage \in {"expanded", "searched"}
    => /\ Len(expanded_queries) >= 1
       /\ expanded_queries[1] = original_query
       /\ \A i, j \in 1..Len(expanded_queries) :
              expanded_queries[i] = expanded_queries[j] => i = j

\* The completion repeated the primary query on two lines and the expanded
\* list holds it once.
C12_Witness ==
    /\ stage = "expanded"
    /\ ~Val(expansion).raised
    /\ QueryExpansionRun(original_query, Val(expansion)) = <<original_query, original_query>>
    /\ expanded_queries = <<original_query>>

\* C13: when the expansion completion raises, the expanded list is exactly
\* the one-element list of the primary query, and retrieval goes on to
\* search with that single query.
C13_FailedExpansionKeepsPrimary ==
    (stage \in {"expanded", "searched"} /\ Val(expansion).raised)
    => /\ expanded_queries = <<original_query>>
       /\ stage = "searched" => searched = <<original_query>>

\* The expansion raised and the primary query was searched.
C13_Witness ==
    /\ stage = "searched"
    /\ Val(expansion).raised
    /\ searched = <<original_query>>

\* The deduplication step has just returned (the later steps leave its
\* result alone).
Deduped == stage = "deduped"
\* The filter step has just returned.
Filtered == stage = "filtered"

\* C14: deduplication is idempotent: applied to its own output it returns
\* the same contexts, sources and scores in the same order.
C14_DedupIdempotent ==
    Deduped => DeduplicateContexts(unique_contexts) = unique_contexts

\* Two passages with one key were gathered, the second with the higher
\* score, and the step kept the second.
C14_Witness ==
    /\ stage = "deduped"
    /\ Len(all_passages.contexts) = 2
    /\ Len(unique_contexts.contexts) = 1
    /\ unique_contexts.contexts[1] # all_passages.contexts[1]

\* The positions of the gathered passages that share the key of context.
KeyGroup(context) ==
    {i \in 1..Len(all_passages.contexts) :
        Strip(all_passages.contexts[i].head) = Strip(context.head)}

\* The first position of a group that attains the group's highest score.
FirstBest(group) ==
    CHOOSE i \in group :
        /\ \A j \in group : all_passages.scores[j] <= all_passages.scores[i]
        /\ \A j \in group : all_passages.scores[j] = all_passages.scores[i] => i <= j

FirstOf(group) == CHOOSE i \in group : \A j \in group : i <= j

\* C15: deduplication keeps exactly one entry for each key (the first 100
\* characters, stripped); its score is the highest of the key's group, its
\* text and source are those of the first passage attaining that score,
\* and the entries stand in the order in which their keys first occur.
C15_DedupKeepsFirstBest ==
    Deduped =>
       LET u == unique_contexts
           n == Len(u.contexts)
       IN /\ Len(u.sources) = n /\ Len(u.scores) = n
          /\ \A i, j \in 1..n :
                Strip(u.contexts[i].head) = Strip(u.contexts[j].head) => i = j
          /\ \A i \in 1..Len(all_passages.contexts) :
                \E k \in 1..n : i \in KeyGroup(u.contexts[k])
          /\ \A k \in 1..n :
                LET group == KeyGroup(u.contexts[k]) IN
                /\ group # {}
                /\ u.scores[k] = all_passages.scores[FirstBest(group)]
                /\ u.contexts[k] = all_passages.contexts[FirstBest(group)]
                /\ u.sources[k] = all_passages.sources[FirstBest(group)]
          /\ \A k, l \in 1..n :
                k < l => FirstOf(KeyGroup(u.contexts[k])) < FirstOf(KeyGroup(u.contexts[l]))

\* Two different texts with one key and equal scores were gathered and the
\* first was kept.
C15_Witness ==
    /\ stage = "deduped"
    /\ Len(all_passages.contexts) = 2
    /\ all_passages.contexts[1] # all_passages.contexts[2]
    /\ all_passages.sources[1] # all_passages.sources[2]
    /\ all_passages.scores[1] = all_passages.scores[2]
    /\ unique_contexts = [contexts |-> <<all_passages.contexts[1]>>,
                          sources  |-> <<all_passages.sources[1]>>,
                          scores   |-> <<all_passages.scores[1]>>]

\* The relevance score the filter gave the unique context at position i.
RelevanceScore(i) == ScoreOf(scorings[i])

\* C16: the relevance filter returns exactly the input passages scored 6.0
\* or more, highest score first and equal scores in input order; it never
\* returns more passages than it was given, and for no passages it returns
\* an empty list, avg_score 0 and no error.
C16_FilterKeepsRelevantSorted ==
    Filtered =>
       LET contexts == unique_contexts.contexts
           fr == Val(filter_results)
           n == Len(fr.filtered_contexts)
           at == [k \in 1..n |-> fr.original_indices[k] + 1]
       IN /\ Len(fr.scores) = n /\ Len(fr.original_indices) = n
          /\ fr.total_filtered = n
          /\ n <= Len(contexts)
          /\ \A k \in 1..n :
                /\ at[k] \in 1..Len(contexts)
                /\ fr.filtered_contexts[k] = contexts[at[k]]
                /\ fr.scores[k] = RelevanceScore(at[k])
          /\ {at[k] : k \in 1..n}
                = {i \in 1..Len(contexts) : RelevanceScore(i) >= RelevanceThreshold}
          /\ \A k, l \in 1..n :
                k < l => \/ fr.scores[k] > fr.scores[l]
                         \/ fr.scores[k] = fr.scores[l] /\ at[k] < at[l]
          /\ contexts = <<>> =>
                /\ fr.filtered_contexts = <<>>
                /\ fr.avg_score = 0
                /\ fr.error = None

\* Of two passages the second was scored higher and is returned first.
C16_Witness ==
    /\ stage = "filtered"
    /\ Val(filter_results).original_indices = <<1, 0>>
    /\ Val(filter_results).scores = <<HighestScore, RelevanceThreshold>>

\* The scoring of the unique context at position i failed.
ScoringFailed(i) == scorings[i].raised \/ ~scorings[i].numeric

\* C17: a passage whose relevance scoring fails (a completion that is no
\* number, or a raising completion) gets the default score 5.0 and is not
\* dropped by the filter because of that failure.
C17_FailedScoringKeepsPassage ==
    Filtered =>
       \A i \in 1..Len(unique_contexts.contexts) :
          ScoringFailed(i) =>
             /\ RelevanceScore(i) = DefaultScore
             /\ \E k \in 1..Len(Val(filter_results).original_indices) :
                   Val(filter_results).original_indices[k] = i - 1

\* C18: every successful retrieve result carries the raw, post-dedup,
\* post-filter and final counts, with final = min(post-filter, configured
\* maximum) and final <= post-filter <= post-dedup <= raw.
C18_RetrievalStats ==
    stage = "finished" =>
       /\ Val(retrieved).success
       /\ LET data == Val(Val(retrieved).data)
              stats == data.retrieval_stats
          IN /\ stats.total_retrieved = Len(all_passages.contexts)
             /\ stats.after_deduplication = Len(unique_contexts.contexts)
             /\ stats.after_filtering = Len(Val(filter_results).filtered_contexts)
             /\ stats.final_count = Len(data.contexts)
             /\ stats.final_count = Min(stats.after_filtering, max_contexts)
             /\ stats.final_count <= stats.after_filtering
             /\ stats.after_filtering <= stats.after_deduplication
             /\ stats.after_deduplication <= stats.total_retrieved

\* With a maximum of one context, two passages passed the filter and one
\* was returned.
C18_Witness ==
    /\ stage = "finished"
    /\ max_contexts = 1
    /\ Val(Val(retrieved).data).retrieval_stats.after_filtering = 2
    /\ Val(Val(retrieved).data).retrieval_stats.final_count = 1

\* The lower-cased email contains a keyword of the given urgency level.
HasUrgencyKeyword(level) ==
    \E k \in 1..Len(URGENCY_KEYWORDS[level]) :
       KeywordIn(URGENCY_KEYWORDS[level][k], ToLower(email_text))

\* C19: for every text containing at least one high-tier urgency keyword
\* the urgency is "high", whatever medium- or low-tier keywords it also
\* contains; the example email gets urgency "high" and positive escalation
\* and complaint scores.
C19_HighUrgencyWins ==
    stage = "analyzed" =>
       /\ HasUrgencyKeyword("high") => Val(keyword_result).urgency = "high"
       /\ email_text = ExampleEmail =>
             /\ Val(keyword_result).urgency = "high"
             /\ Val(keyword_result).intent_scores["escalation"] > 0
             /\ Val(keyword_result).intent_scores["complaint"] > 0

\* An email with a keyword of each of the three levels was analysed.
C19_Witness ==
    /\ stage = "analyzed"
    /\ HasUrgencyKeyword("high")
    /\ HasUrgencyKeyword("medium")
    /\ HasUrgencyKeyword("low")
    /\ Val(keyword_result).urgency = "high"

\* C20: ToneAnalysisTool._run is a pure function of its arguments: after
\* any earlier calls a call returns what it would return as the first
\* call, and no call changes the intent-to-tone-list mapping.
C20_ToneSignalIsPure ==
    tone_input # None =>
       /\ tone_result = Some(ToneAnalysisRun(TONE_MAPPING,
                                             Val(tone_input).email_content,
                                             Val(tone_input).intent,
                                             Val(tone_input).sender_history).returned)
       /\ tone_mapping = TONE_MAPPING

\* C26: in every successful retrieve result contexts, sources and scores
\* are equally long and sources[i] is the source that deduplication holds
\* for the passage text contexts[i].
C26_SourcesFollowContexts ==
    stage = "finished" =>
       LET data == Val(Val(retrieved).data)
           u == unique_contexts
       IN /\ Len(data.sources) = Len(data.contexts)
          /\ Len(data.scores) = Len(data.contexts)
          /\ \A i \in 1..Len(data.contexts) :
                \E k \in 1..Len(u.contexts) :
                   /\ u.contexts[k] = data.contexts[i]
                   /\ i <= Len(data.sources)
                   /\ u.sources[k] = data.sources[i]

\* The urgency levels that have a keyword in the lower-cased email.
LevelsPresent == {level \in {"high", "medium", "low"} : HasUrgencyKeyword(level)}

\* C27: the urgency is the highest level, in the precedence high > medium >
\* low, that has a keyword in the text, and "low" when no urgency keyword
\* occurs; a text with a medium and a low keyword and no high keyword gets
\* "medium".
C27_HighestTierWins ==
    stage = "analyzed" =>
       Val(keyword_result).urgency =
          (IF "high" \in LevelsPresent THEN "high"
           ELSE IF "medium" \in LevelsPresent THEN "medium"
           ELSE "low")

\* The first place where the output, as the completion returned it, holds an
\* 'Action: <name>' line followed by an 'Action Input: <input>' line.
WellFormedAction(raw) ==
    CHOOSE p \in ActionMatches(raw) : \A q \in ActionMatches(raw) : p[1] <= q[1]

\* C29: whenever the decide output contains a well-formed 'Action: <name>'
\* line followed by an 'Action Input: <input>' line, the decision is that
\* capability call, also when the output holds a 'Final Answer:' marker; in
\* every other case the decision is a final answer.
C29_ActionMarkerWins ==
    (pc = "route" /\ lastResponse # None) =>
       LET raw == Val(lastResponse) IN
       IF ActionMatches(raw) # {}
       THEN /\ state.current_action # None
            /\ Val(state.current_action).tool =
                  SubSeq(raw, WellFormedAction(raw)[1] + 2, WellFormedAction(raw)[2])
       ELSE state.final_answer # None

\* A line without its leading enumeration marker ("1." and the blanks after
\* it); a line without a marker is kept as it is.
WithoutMarker(line) ==
    IF StartsWithNumber(line) THEN LStrip(Drop(line, 2)) ELSE line

\* One query for every non-blank line.
RECURSIVE QueryPerLine(_)
QueryPerLine(lines) ==
    IF lines = <<>> THEN <<>>
    ELSE LET line == Strip(Head(lines)) IN
         IF line # <<>> THEN <<WithoutMarker(line)>> \o QueryPerLine(Tail(lines))
         ELSE QueryPerLine(Tail(lines))

\* C23: every non-blank line of the expansion completion contributes one
\* alternative query, up to the limit of 5: a leading enumeration marker is
\* stripped, the rest of the line is kept unchanged, and only blank lines
\* are discarded.
C23_EveryLineContributes ==
    (stage = "expanded" /\ ~Val(expansion).raised) =>
       QueryExpansionRun(original_query, Val(expansion)) =
          Take(QueryPerLine(SplitLines(Strip(Val(expansion).content))), ExpansionLimit)

\* --------------------------------------------------- the primary query
\* ContextRetrieverAgent._generate_search_query. Texts are sequences of
\* characters; "sp" is a blank and "nl" a newline.

\* keywords[:5]
KeywordLimit == 5

\* state.email_content[:50]
FallbackChars == 50

\* stop_words
STOP_WORDS ==
    {<<"t", "h", "e">>,
     <<"a">>,
     <<"a", "n">>,
     <<"a", "n", "d">>,
     <<"o", "r">>,
     <<"b", "u", "t">>,
     <<"i", "n">>,
     <<"o", "n">>,
     <<"a", "t">>,
     <<"t", "o">>,
     <<"f", "o", "r">>,
     <<"o", "f">>,
     <<"w", "i", "t", "h">>,
     <<"b", "y">>,
     <<"i", "s">>,
     <<"a", "r", "e">>,
     <<"w", "a", "s">>,
     <<"w", "e", "r", "e">>,
     <<"b", "e">>,
     <<"b", "e", "e", "n">>,
     <<"h", "a", "v", "e">>,
     <<"h", "a", "s">>,
     <<"h", "a", "d">>,
     <<"d", "o">>,
     <<"d", "o", "e", "s">>,
     <<"d", "i", "d">>,
     <<"w", "i", "l", "l">>,
     <<"w", "o", "u", "l", "d">>,
     <<"c", "o", "u", "l", "d">>,
     <<"s", "h", "o", "u", "l", "d">>,
     <<"m", "a", "y">>,
     <<"m", "i", "g", "h", "t">>,
     <<"c", "a", "n">>,
     <<"i">>,
     <<"y", "o", "u">>,
     <<"h", "e">>,
     <<"s", "h", "e">>,
     <<"i", "t">>,
     <<"w", "e">>,
     <<"t", "h", "e", "y">>,
     <<"m", "y">>,
     <<"y", "o", "u", "r">>,
     <<"h", "i", "s">>,
     <<"h", "e", "r">>,
     <<"i", "t", "s">>,
     <<"o", "u", "r">>,
     <<"t", "h", "e", "i", "r">>}

\* str.lower() of one character (the capitals used in the bodies below)
LowerChar(c) ==
    CASE c = "T" -> "t"
      [] c = "R" -> "r"
      [] c = "I" -> "i"
      [] OTHER   -> c

\* email_content.lower()
LowerText(s) == [i \in 1..Len(s) |-> LowerChar(s[i])]

\* str.split(): the maximal runs of non-blank characters, in order.
RECURSIVE SplitWords(_)
SplitWords(s) ==
    LET t == LStrip(s) IN
    IF t = <<>> THEN <<>>
    ELSE IF \A i \in 1..Len(t) : t[i] \notin Spaces THEN <<t>>
    ELSE LET i == CHOOSE i \in 1..Len(t) :
                     t[i] \in Spaces /\ \A j \in 1..(i - 1) : t[j] \notin Spaces
         IN <<Take(t, i - 1)>> \o SplitWords(Drop(t, i))

\* ' '.join(words)
RECURSIVE JoinWords(_)
JoinWords(words) ==
    IF words = <<>> THEN <<>>
    ELSE IF Len(words) = 1 THEN words[1]
    ELSE words[1] \o <<"sp">> \o JoinWords(Tail(words))

\* [word for word in words if word not in stop_words and len(word) > 3]
Keywords(words) == SelectSeq(words, LAMBDA w : w \notin STOP_WORDS /\ Len(w) > 3)

\* The keyword extraction of lines 415-420.
KeywordExtraction(body) ==
    JoinWords(Take(Keywords(SplitWords(LowerText(body))), KeywordLimit))

\* The except branch of lines 424-429.
SubjectOrStart(body, subj) ==
    IF TruthyStr(subj) THEN Val(subj) ELSE Take(body, FallbackChars)

\* ContextRetrieverAgent._generate_search_query
GenerateSearchQuery(body, subj, outcome) ==
    IF outcome.raised THEN SubjectOrStart(body, subj)
    ELSE LET query == Strip(outcome.content) IN
         IF query = <<>> \/ Len(query) < 3 THEN KeywordExtraction(body)
         ELSE query

\* Email bodies (process returns before the query is generated when the
\* body is empty): a body without a keyword; a stop word in capitals and a word of three letters; two keywords; stop words, a double blank and a newline; six keywords; 56 characters without a keyword; 55 characters with keywords.
QueryBodies ==
    {<<"h", "i">>,
     <<"T", "h", "e", "sp", "c", "a", "t">>,
     <<"R", "e", "f", "u", "n", "d", "sp", "p", "o", "l", "i", "c", "y">>,
     <<"I", "sp", "h", "a", "v", "e", "sp", "a", "sp", "sp", "r", "e", "f", "u", "n", "d", "nl", "p", "l", "a", "n">>,
     <<"a", "a", "a", "a", "sp", "b", "b", "b", "b", "sp", "c", "c", "c", "c", "sp", "d", "d", "d", "d", "sp", "e", "e", "e", "e", "sp", "f", "f", "f", "f">>,
     <<"w", "e", "sp", "d", "o", "sp", "i", "t", "sp", "w", "e", "sp", "d", "o", "sp", "i", "t", "sp", "w", "e", "sp", "d", "o", "sp", "i", "t", "sp", "w", "e", "sp", "d", "o", "sp", "i", "t", "sp", "w", "e", "sp", "d", "o", "sp", "i", "t", "sp", "w", "e", "sp", "d", "o", "sp", "i", "t", "sp", "o", "k">>,
     <<"r", "e", "f", "u", "n", "d", "sp", "t", "h", "e", "sp", "o", "r", "d", "e", "r", "sp", "r", "e", "f", "u", "n", "d", "sp", "t", "h", "e", "sp", "o", "r", "d", "e", "r", "sp", "r", "e", "f", "u", "n", "d", "sp", "t", "h", "e", "sp", "o", "r", "d", "e", "r", "sp", "s", "o", "o", "n">>}

\* state.subject: None, '' or "Re a".
QuerySubjects == {None, Some(<<>>), Some(<<"R", "e", "sp", "a">>)}

\* What the query completion call does: it raises, or returns content.
QueryOutcomes ==
    {[raised |-> TRUE, content |-> <<>>]}
    \cup {[raised |-> FALSE, content |-> c] :
             c \in {<<>>, <<"sp", "nl">>, <<"o", "k">>, <<"sp", "a", "sp">>, <<"a", "b", "c">>, <<"sp", "r", "e", "f", "u", "n", "d", "sp", "p", "l", "a", "n", "nl">>}}

\* process, step 1: search_query = await self._generate_search_query(state)
GenerateQuery ==
    /\ stage = "email"
    /\ \E outcome \in QueryOutcomes :
          component' =
             [component EXCEPT
                 !.query_response = Some(outcome),
                 !.search_query = Some(GenerateSearchQuery(query_email, subject, outcome))]
    /\ stage' = "generated"
    /\ UNCHANGED <<loopVars, expandVars, passageVars, keywordVars, toneVars, searchVars>>

QueryInit ==
    /\ agent = "context_retriever"
    /\ LoopIdle
    /\ stage = "email"
    /\ component \in [email_content : QueryBodies, subject : QuerySubjects,
                      query_response : {None}, search_query : {None}]
    /\ ExpandIdle
    /\ PassageIdle
    /\ KeywordIdle
    /\ ToneIdle
    /\ SearchIdle

QueryNext == GenerateQuery

QuerySpec == QueryInit /\ [][QueryNext]_vars

\* C21: when the completion call fails during primary-query generation, the
\* primary query is the keyword extraction of the body: the lower-cased
\* words without stop words and words of at most 3 characters, the first 5
\* of them joined by blanks.
C21_FailureGivesKeywords ==
    (stage = "generated" /\ Val(query_response).raised) =>
       Val(search_query) = KeywordExtraction(query_email)

\* C22: when the completion is empty or shorter than 3 characters and the
\* keyword extraction yields no word, the primary query is the subject if
\* there is one and the first 50 characters of the body otherwise, so it is
\* not empty when the body is not empty.
C22_NoKeywordsGivesSubjectOrStart ==
    (/\ stage = "generated"
     /\ ~Val(query_response).raised
     /\ Len(Strip(Val(query_response).content)) < 3
     /\ Keywords(SplitWords(LowerText(query_email))) = <<>>) =>
       /\ Val(search_query) = SubjectOrStart(query_email, subject)
       /\ query_email # <<>> => Val(search_query) # <<>>

\* ------------------------------------------------------- retrieval fan-out
\* The loop of step 3 of ContextRetrieverAgent.process over a vector store.

\* The queries a store holds documents for: "a", "b", "a b".
StoreQueries == {<<"a">>, <<"b">>, <<"a", "sp", "b">>}

\* Two documents of a store, the second without a 'source' in its metadata.
Documents ==
    {[page_content |-> [head |-> <<"a">>, tail |-> <<>>], source |-> Some("s1"), score |-> 1],
     [page_content |-> [head |-> <<"b">>, tail |-> <<>>], source |-> None, score |-> 2]}

\* What one search can do: raise, or return up to MaxResults documents.
SearchOutcomes ==
    {Raises} \cup UNION {{Returns(r) : r \in [1..n -> Documents]} : n \in 0..MaxResults}

\* The stores an agent can be built on: none, or one that answers each
\* query in its own way.
VectorStores == {None} \cup {Some(f) : f \in [StoreQueries -> SearchOutcomes]}

\* Lists of expanded queries: the primary query and up to MaxQueries
\* others, all different (after dict.fromkeys no query occurs twice).
QueryLists ==
    UNION {{q \in [1..n -> StoreQueries] :
               \A i, j \in 1..n : i # j => q[i] # q[j]} : n \in 1..(MaxQueries + 1)}

FanOutInit ==
    /\ agent = "context_retriever"
    /\ LoopIdle
    /\ stage = "expanded"
    /\ expanded_queries \in QueryLists
    /\ original_query = expanded_queries[1]
    /\ expansion = None
    /\ searched = <<>>
    /\ vector_store \in VectorStores
    /\ search_results = <<>>
    /\ all_passages = NoPassages
    /\ max_contexts \in {1, DefaultMaxContexts}
    /\ unique_contexts = NoPassages
    /\ scorings = <<>>
    /\ filter_results = None
    /\ retrieved = None
    /\ KeywordIdle
    /\ ToneIdle
    /\ component = NoComponent

FanOutNext ==
    \/ SearchVectorDb
    \/ SearchDone

FanOutSpec == FanOutInit /\ [][FanOutNext]_vars

\* What the store gives for the i-th query searched: the page contents of
\* the documents returned, nothing when the search raises.
ContentsFor(i) ==
    LET outcome == SimilaritySearch(vector_store, searched[i], max_contexts) IN
    IF outcome.raised THEN <<>>
    ELSE [k \in 1..Len(outcome.results) |-> outcome.results[k].page_content]

RECURSIVE ContentsUpTo(_)
ContentsUpTo(n) == IF n = 0 THEN <<>> ELSE ContentsUpTo(n - 1) \o ContentsFor(n)

RECURSIVE CountUpTo(_)
CountUpTo(n) == IF n = 0 THEN 0 ELSE CountUpTo(n - 1) + Len(ContentsFor(n))

\* C24: the raw passage list is the concatenation, in expanded-query order,
\* of each query's search results, so the raw count is the sum of the
\* per-query counts with no cap before deduplication; a query whose search
\* fails or returns nothing contributes no passage and the retrieval goes
\* on with the next query.
C24_RawListIsConcatenation ==
    stage \in {"expanded", "searched"} =>
       /\ searched = Take(expanded_queries, Len(searched))
       /\ all_passages.contexts = ContentsUpTo(Len(searched))
       /\ Len(all_passages.contexts) = CountUpTo(Len(searched))
       /\ Len(all_passages.sources) = Len(all_passages.contexts)
       /\ Len(all_passages.scores) = Len(all_passages.contexts)
       /\ retrieved = None
       /\ stage = "searched" => Len(searched) = Len(expanded_queries)

\* Three searches are over with max_contexts = 1: one raised and the two
\* others returned one document each, so the raw list holds more than
\* max_contexts passages.
C24_Witness ==
    /\ stage = "searched"
    /\ Len(searched) = 3
    /\ max_contexts = 1
    /\ \E i \in 1..3 :
          /\ search_results[i].failed
          /\ \A j \in (1..3) \ {i} : search_results[j].total_results = 1
    /\ Len(all_passages.contexts) = 2

\* ------------------------------------------------------ the template tool
\* ResponseTemplateTool._run. An email is a sequence of lexemes: words,
\* the blank "sp", the full stop "." and the mark "!". No word of the
\* vocabulary holds a keyword inside it, except "Question", which ends in
\* "on".
TemplateWords ==
    {"Question", "about", "the", "refund", "Error", "problem", "with",
     "please", "send", "policy", "not", "working", "app"}

\* str.lower() of one lexeme
LowerWord(w) ==
    CASE w = "Question" -> "question"
      [] w = "Error"    -> "error"
      [] OTHER          -> w

\* content_lower = email_content.lower()
LowerWords(s) == [i \in 1..Len(s) |-> LowerWord(s[i])]

\* A lower-case word with its first letter in capitals.
CapWord(w) ==
    CASE w = "question" -> "Question"
      [] w = "about"    -> "About"
      [] w = "the"      -> "The"
      [] w = "refund"   -> "Refund"
      [] w = "error"    -> "Error"
      [] w = "problem"  -> "Problem"
      [] w = "with"     -> "With"
      [] w = "please"   -> "Please"
      [] w = "send"     -> "Send"
      [] w = "policy"   -> "Policy"
      [] w = "not"      -> "Not"
      [] w = "working"  -> "Working"
      [] w = "app"      -> "App"
      [] OTHER          -> w

\* str.capitalize(): the first character in capitals, the rest lower-case.
Capitalize(s) ==
    IF s = <<>> THEN s
    ELSE [i \in 1..Len(s) |-> IF i = 1 THEN CapWord(LowerWord(s[1])) ELSE LowerWord(s[i])]

\* phrase in content_lower, for a phrase of whole words
Occurs(phrase, s) ==
    \E i \in 1..(Len(s) - Len(phrase) + 1) : SubSeq(s, i, i + Len(phrase) - 1) = phrase

TechWords ==
    {<<"error">>, <<"bug">>, <<"not", "sp", "working">>, <<"technical">>, <<"setup">>}
CannotFulfillIndicators ==
    {<<"cannot">>, <<"unable">>, <<"not", "sp", "possible">>, <<"restricted">>, <<"policy">>}

\* ResponseTemplateTool._select_template_key
SelectTemplateKey(intent, text, tone) ==
    LET content_lower == LowerWords(text) IN
    CASE intent = "question" ->
            IF \E w \in TechWords : Occurs(w, content_lower)
            THEN "question_technical" ELSE "question_general"
      [] intent = "complaint" -> "complaint_acknowledgment"
      [] intent = "escalation" -> "escalation_urgent"
      [] intent = "request" ->
            IF \E w \in CannotFulfillIndicators : Occurs(w, content_lower)
            THEN "request_cannot_fulfill" ELSE "request_fulfillment"
      [] OTHER -> "question_general"

\* The keys of TEMPLATES.
TemplateKeys ==
    {"question_general", "question_technical", "complaint_acknowledgment",
     "escalation_urgent", "request_fulfillment", "request_cannot_fulfill"}

\* self.TEMPLATES.get(template_key, self.TEMPLATES["question_general"]),
\* a template being named by its key.
TemplateFor(key) == IF key \in TemplateKeys THEN key ELSE "question_general"

\* The last index of the run of blanks that starts at `from` (from - 1
\* when there is none).
RECURSIVE BlankRun(_, _)
BlankRun(s, from) ==
    IF from <= Len(s) /\ s[from] = "sp" THEN BlankRun(s, from + 1) ELSE from - 1

\* The last index of the run of [A-Za-z0-9\s\-_,] that starts at `from`.
RECURSIVE ClassRun(_, _)
ClassRun(s, from) ==
    IF from <= Len(s) /\ s[from] \in TemplateWords \cup {"sp"}
    THEN ClassRun(s, from + 1) ELSE from - 1

\* (about|regarding|concerning|on), ignoring case, ends at this lexeme.
EndsInTopicMarker(w) ==
    LowerWord(w) \in {"about", "regarding", "concerning", "on", "question"}

\* (about|regarding|concerning|on)\s+([A-Za-z0-9\s\-_,]+) matches with its
\* marker at i: the blanks are taken greedily and group 2 is the rest of
\* the run; when the run holds blanks only, the last of at least two
\* blanks is given back to group 2.
TopicMatchAt(s, i) ==
    /\ EndsInTopicMarker(s[i])
    /\ BlankRun(s, i + 1) >= i + 1
    /\ \/ ClassRun(s, i + 1) > BlankRun(s, i + 1)
       \/ BlankRun(s, i + 1) >= i + 2

TopicGroup(s, i) ==
    IF ClassRun(s, i + 1) > BlankRun(s, i + 1)
    THEN SubSeq(s, BlankRun(s, i + 1) + 1, ClassRun(s, i + 1))
    ELSE <<"sp">>

\* sentences[0] of email_content.split('.')
FirstSentence(text) ==
    IF \E i \in 1..Len(text) : text[i] = "."
    THEN Take(text, (CHOOSE i \in 1..Len(text) :
                         text[i] = "." /\ \A j \in 1..(i - 1) : text[j] # ".") - 1)
    ELSE text

YourInquiry == <<"your inquiry">>

\* The topic of _extract_variables (lines 252-263).
Topic(text) ==
    LET first_sentence == Strip(FirstSentence(text))
        matches == {i \in 1..Len(first_sentence) : TopicMatchAt(first_sentence, i)}
    IN IF matches # {}
       THEN LET i == CHOOSE i \in matches : \A j \in matches : i <= j
            IN Capitalize(Strip(TopicGroup(first_sentence, i)))
       ELSE LET words == Capitalize(JoinWords(Take(SplitWords(first_sentence), 6)))
            IN IF words = <<>> THEN YourInquiry ELSE words

\* (marker)\s*(link)?\s*([A-Za-z0-9\s\-_,]+)? searched in the email:
\* group 3 of the leftmost match, None when it took part in no match or
\* there is no match. A marker is a phrase of whole words.
MarkerAt(s, i, markers) ==
    \E m \in markers : i + Len(m) - 1 <= Len(s)
                       /\ LowerWords(SubSeq(s, i, i + Len(m) - 1)) = m

MarkerEnd(s, i, markers) ==
    LET m == CHOOSE m \in markers :
                 i + Len(m) - 1 <= Len(s) /\ LowerWords(SubSeq(s, i, i + Len(m) - 1)) = m
    IN i + Len(m) - 1

GroupThree(s, markers, links) ==
    LET matches == {i \in 1..Len(s) : MarkerAt(s, i, markers)} IN
    IF matches = {} THEN None
    ELSE LET i == CHOOSE i \in matches : \A j \in matches : i <= j
             b == BlankRun(s, MarkerEnd(s, i, markers) + 1)
             linked == b + 1 <= Len(s) /\ LowerWord(s[b + 1]) \in links
             from == IF linked THEN BlankRun(s, b + 2) + 1 ELSE b + 1
         IN IF ClassRun(s, from) >= from
            THEN Some(SubSeq(s, from, ClassRun(s, from)))
            ELSE None

IssueMarkers == {<<"problem">>, <<"issue">>, <<"error">>, <<"trouble">>, <<"difficulty">>}
IssueLinks == {"with", "in", "regarding"}
RequestMarkers == {<<"request">>, <<"would", "sp", "like">>, <<"please">>}
RequestLinks == {"for", "to"}

\* Group 3 capitalized, or the placeholder.
Described(group, placeholder) ==
    IF group # None /\ Val(group) # <<>> THEN Capitalize(Strip(Val(group)))
    ELSE placeholder

\* ResponseTemplateTool._extract_variables; the timestamp is the lexeme
\* "now".
ExtractVariables(text, context, intent) ==
    LET variables == [topic |-> Topic(text),
                      signature |-> <<"Customer Service Team">>,
                      context_information |-> IF context # <<>> THEN context ELSE <<>>,
                      timestamp |-> <<"now">>]
    IN CASE intent = "complaint" ->
               variables @@ [issue_description |->
                   Described(GroupThree(text, IssueMarkers, IssueLinks),
                             <<"the issue you described">>)]
         [] intent = "request" ->
               variables @@ [request_description |->
                   Described(GroupThree(text, RequestMarkers, RequestLinks),
                             <<"your request">>)]
         [] intent = "escalation" ->
               variables @@ [escalation_actions |-> <<"Escalating to the appropriate team">>,
                             immediate_steps |-> <<"We are prioritizing your case">>,
                             contact_person |-> <<"our escalation manager">>,
                             timeframe |-> <<"24 hours">>]
         [] OTHER -> variables

\* Neither ResponseTemplateTool nor a class it inherits from defines
\* _identify_customization_needs.
HasIdentifyCustomizationNeeds == FALSE

\* ResponseTemplateTool._run: the dictionary is built after the template
\* key and the variables; building it looks up
\* self._identify_customization_needs.
ResponseTemplateRun(intent, text, context, tone) ==
    LET template_key == SelectTemplateKey(intent, text, tone)
        template == TemplateFor(template_key)
        variables == ExtractVariables(text, context, intent)
    IN IF HasIdentifyCustomizationNeeds
       THEN [raised |-> FALSE,
             value |-> Some([template |-> template, template_key |-> template_key,
                             variables |-> variables])]
       ELSE [raised |-> TRUE, value |-> None]

\* Emails: "", "Error", "not working", "the refund policy", "please send
\* the refund", "problem with the app!", "Question about the refund.
\* please", "about  !", ". refund".
TemplateTexts ==
    {<<>>,
     <<"Error">>,
     <<"not", "sp", "working">>,
     <<"the", "sp", "refund", "sp", "policy">>,
     <<"please", "sp", "send", "sp", "the", "sp", "refund">>,
     <<"problem", "sp", "with", "sp", "the", "sp", "app", "!">>,
     <<"Question", "sp", "about", "sp", "the", "sp", "refund", ".", "sp", "please">>,
     <<"about", "sp", "sp", "!">>,
     <<".", "sp", "refund">>}
TemplateIntents == {"question", "complaint", "escalation", "request", "other"}
TemplateContexts == {<<>>, <<"ctx">>}
TemplateTones == {"professional", "apologetic"}

\* One call of the template tool.
SelectTemplate ==
    /\ stage = "template"
    /\ \E intent \in TemplateIntents, context \in TemplateContexts, tone \in TemplateTones :
          component' =
             [template_input |-> Some([intent |-> intent, context |-> context, tone |-> tone]),
              template_result |-> Some(ResponseTemplateRun(intent, email_text, context, tone))]
    /\ stage' = "templated"
    /\ UNCHANGED <<loopVars, expandVars, passageVars, keywordVars, toneVars, searchVars>>

TemplateInit ==
    /\ agent = "response_generator"
    /\ LoopIdle
    /\ stage = "template"
    /\ ExpandIdle
    /\ PassageIdle
    /\ email_text \in TemplateTexts
    /\ keyword_result = None
    /\ ToneIdle
    /\ SearchIdle
    /\ component = [template_input |-> None, template_result |-> None]

TemplateNext == SelectTemplate

TemplateSpec == TemplateInit /\ [][TemplateNext]_vars

\* C25: for every (intent, text, context, tone) the template tool returns
\* a result holding the selected template key and the extracted variables,
\* with the generic placeholders where no pattern matches; it never ends
\* in an error.
C25_TemplateToolReturns ==
    stage = "templated" =>
       LET input == Val(template_input)
           returned == Val(template_result)
       IN /\ ~returned.raised
          /\ Val(returned.value).template_key =
                SelectTemplateKey(input.intent, email_text, input.tone)
          /\ Val(returned.value).variables =
                ExtractVariables(email_text, input.context, input.intent)

\* ------------------------------------------------------ the vector service
\* VectorService: initialize, verify_connection, ensure_initialized and
\* cleanup. A client, an embedding function and a collection are None or
\* an object.

\* Most calls made on one service.
MaxCalls == 4

\* Where initialize can fail: creating the client, loading the embedding
\* model, or get_or_create_collection; "none" when nothing fails. (What
\* get_collection and delete_collection raise is swallowed at line 79.)
InitFailures == {"none", "client", "embedding", "collection"}

\* VectorService.initialize: the service after the call and whether the
\* call raised VectorDBException.
InitializeRun(svc, fails) ==
    IF svc.initialized THEN [svc |-> svc, raised |-> FALSE]
    ELSE CASE fails = "client" ->
                 [svc |-> [svc EXCEPT !.initialized = FALSE], raised |-> TRUE]
           [] fails = "embedding" ->
                 [svc |-> [svc EXCEPT !.client = Some("client"),
                                      !.initialized = FALSE],
                  raised |-> TRUE]
           [] fails = "collection" ->
                 [svc |-> [svc EXCEPT !.client = Some("client"),
                                      !.embedding_function = Some("embedding"),
                                      !.initialized = FALSE],
                  raised |-> TRUE]
           [] OTHER ->
                 [svc |-> [client |-> Some("client"),
                           embedding_function |-> Some("embedding"),
                           collection |-> Some("collection"),
                           initialized |-> TRUE],
                  raised |-> FALSE]

\* VectorService.verify_connection; count_raises says what
\* self.collection.count() does if it is called.
VerifyConnectionRun(svc, count_raises) ==
    IF ~svc.initialized \/ svc.client = None \/ svc.collection = None
    THEN [svc |-> svc, returned |-> FALSE]
    ELSE IF count_raises
         THEN [svc |-> [svc EXCEPT !.initialized = FALSE], returned |-> FALSE]
         ELSE [svc |-> svc, returned |-> TRUE]

\* VectorService.ensure_initialized
EnsureInitializedRun(svc, count_raises, fails) ==
    IF ~svc.initialized THEN InitializeRun(svc, fails)
    ELSE LET verified == VerifyConnectionRun(svc, count_raises) IN
         IF ~verified.returned THEN InitializeRun(verified.svc, fails)
         ELSE [svc |-> verified.svc, raised |-> FALSE]

\* VectorService.cleanup
CleanupRun(svc) ==
    IF svc.client # None
    THEN [svc EXCEPT !.client = None, !.collection = None,
                     !.embedding_function = None]
    ELSE svc

Called(name, raised) == [name |-> name, raised |-> raised]

Initialize ==
    /\ stage = "service"
    /\ Len(history) < MaxCalls
    /\ \E fails \in InitFailures :
          LET run == InitializeRun(service, fails) IN
          component' = [service |-> run.svc,
                        history |-> Append(history, Called("initialize", run.raised))]
    /\ UNCHANGED <<loopVars, stage, expandVars, passageVars, keywordVars, toneVars,
                   searchVars>>

VerifyConnection ==
    /\ stage = "service"
    /\ Len(history) < MaxCalls
    /\ \E count_raises \in BOOLEAN :
          LET run == VerifyConnectionRun(service, count_raises) IN
          component' = [service |-> run.svc,
                        history |-> Append(history, Called("verify_connection", FALSE))]
    /\ UNCHANGED <<loopVars, stage, expandVars, passageVars, keywordVars, toneVars,
                   searchVars>>

EnsureInitialized ==
    /\ stage = "service"
    /\ Len(history) < MaxCalls
    /\ \E count_raises \in BOOLEAN, fails \in InitFailures :
          LET run == EnsureInitializedRun(service, count_raises, fails) IN
          component' = [service |-> run.svc,
                        history |-> Append(history, Called("ensure_initialized", run.raised))]
    /\ UNCHANGED <<loopVars, stage, expandVars, passageVars, keywordVars, toneVars,
                   searchVars>>

Cleanup ==
    /\ stage = "service"
    /\ Len(history) < MaxCalls
    /\ component' = [service |-> CleanupRun(service),
                     history |-> Append(history, Called("cleanup", FALSE))]
    /\ UNCHANGED <<loopVars, stage, expandVars, passageVars, keywordVars, toneVars,
                   searchVars>>

ServiceInit ==
    /\ agent = "context_retriever"
    /\ LoopIdle
    /\ stage = "service"
    /\ ExpandIdle
    /\ PassageIdle
    /\ KeywordIdle
    /\ ToneIdle
    /\ SearchIdle
    /\ component = [service |-> NewService, history |-> <<>>]

ServiceNext ==
    \/ Initialize
    \/ VerifyConnection
    \/ EnsureInitialized
    \/ Cleanup

ServiceSpec == ServiceInit /\ [][ServiceNext]_vars

\* C28: after ensure_initialized returns without raising, in any state
\* reached by calls of initialize, cleanup, verify_connection and
\* ensure_initialized (directly after cleanup too), client and collection
\* are not None, so the store operation that follows can use the collection.
C28_EnsuredServiceHasCollection ==
    (/\ history # <<>>
     /\ history[Len(history)].name = "ensure_initialized"
     /\ ~history[Len(history)].raised) =>
       /\ service.client # None
       /\ service.collection # None

\* ------------------------------------------------------- retry_operation
\* The wrapper that retry_operation puts around an operation such as
\* query_similar. Times are in seconds.

\* Most calls of the wrapper.
MaxWrapperCalls == 2

RECURSIVE Pow2(_)
Pow2(n) == IF n = 0 THEN 1 ELSE 2 * Pow2(n - 1)

\* wait_time = delay * (2 ** attempt)
WaitTime(d, n) == d * Pow2(n)

\* A wrapper that sleeps after every failed attempt.
WaitsAfterEveryFailure(n, retries) == TRUE

\* if attempt < max_retries - 1
WaitsBeforeRetry(n, retries) == n < retries - 1

\* What one call of func does: it returns documents or raises; the
\* exception object of a call is told apart by the attempt that raised it.
FuncResults == {"documents", "no documents"}
FuncExceptions == {"VectorDBException", "TypeError"}
Returned(value) == [raised |-> FALSE, value |-> value]
Raised(type, n) == [raised |-> TRUE, value |-> [type |-> type, attempt |-> n]]

\* wrapper(*args, **kwargs) is called: last_exception = None and the loop
\* starts.
CallWrapper ==
    /\ stage = "retry"
    /\ retry_pc \in {"idle", "done"}
    /\ wrapper_calls < MaxWrapperCalls
    /\ component' =
          [component EXCEPT
              !.wrapper_calls = @ + 1,
              !.retry_pc = IF max_retries > 0 THEN "loop" ELSE "exhausted",
              !.attempt = 0,
              !.last_exception = None,
              !.attempts = <<>>,
              !.sleeps = <<>>,
              !.wrapper_result = None]
    /\ UNCHANGED <<loopVars, stage, expandVars, passageVars, keywordVars, toneVars,
                   searchVars>>

\* One turn of the loop in which func returns: the wrapper returns that.
AttemptReturns ==
    /\ stage = "retry"
    /\ retry_pc = "loop"
    /\ \E value \in FuncResults :
          component' =
             [component EXCEPT
                 !.attempts = Append(@, Returned(value)),
                 !.wrapper_result = Some(Returned(value)),
                 !.retry_pc = "done"]
    /\ UNCHANGED <<loopVars, stage, expandVars, passageVars, keywordVars, toneVars,
                   searchVars>>

\* One turn of the loop in which func raises: the exception is kept, the
\* wrapper sleeps if another attempt follows, and the loop goes on.
AttemptRaises ==
    /\ stage = "retry"
    /\ retry_pc = "loop"
    /\ \E type \in FuncExceptions :
          component' =
             [component EXCEPT
                 !.attempts = Append(@, Raised(type, attempt)),
                 !.last_exception = Some(Raised(type, attempt).value),
                 !.sleeps = IF WaitsBeforeRetry(attempt, max_retries)
                            THEN Append(@, WaitTime(delay, attempt))
                            ELSE @,
                 !.attempt = @ + 1,
                 !.retry_pc = IF attempt + 1 < max_retries THEN "loop" ELSE "exhausted"]
    /\ UNCHANGED <<loopVars, stage, expandVars, passageVars, keywordVars, toneVars,
                   searchVars>>

\* raise last_exception
RaiseLast ==
    /\ stage = "retry"
    /\ retry_pc = "exhausted"
    /\ component' =
          [component EXCEPT
              !.wrapper_result =
                  Some([raised |-> TRUE,
                        value |-> IF last_exception = None
                                  THEN [type |-> "TypeError", attempt |-> -1]
                                  ELSE Val(last_exception)]),
              !.retry_pc = "done"]
    /\ UNCHANGED <<loopVars, stage, expandVars, passageVars, keywordVars, toneVars,
                   searchVars>>

\* The operations of VectorService are decorated with @retry_operation():
\* max_retries = 3 and delay = 1.0; a delay of 2 seconds is tried as well.
RetryInit ==
    /\ agent = "context_retriever"
    /\ LoopIdle
    /\ stage = "retry"
    /\ ExpandIdle
    /\ PassageIdle
    /\ KeywordIdle
    /\ ToneIdle
    /\ SearchIdle
    /\ component \in [max_retries : {DefaultMaxRetries},
                      delay : {DefaultDelay, 2 * DefaultDelay},
                      retry_pc : {"idle"}, attempt : {0}, last_exception : {None},
                      attempts : {<<>>}, sleeps : {<<>>}, wrapper_calls : {0},
                      wrapper_result : {None}]

RetryNext ==
    \/ CallWrapper
    \/ AttemptReturns
    \/ AttemptRaises
    \/ RaiseLast

RetrySpec == RetryInit /\ [][RetryNext]_vars

\* The attempts of this call before the last one all raised.
EarlierAttemptsRaised == \A i \in 1..(Len(attempts) - 1) : attempts[i].raised

\* C30: an operation wrapped by retry_operation with max_retries = 3 is
\* attempted at most 3 times per call; the wrapper returns the result of
\* the first attempt that succeeds and attempts nothing after it; it waits
\* only between attempts, each wait twice the one before, and never after
\* the last attempt; after 3 failed attempts it raises the exception of the
\* last attempt.
C30_AtMostThreeAttempts ==
    (stage = "retry" /\ max_retries = 3) =>
       /\ Len(attempts) <= 3
       /\ EarlierAttemptsRaised
       /\ \A i \in 1..Len(sleeps) : sleeps[i] = delay * Pow2(i - 1)
       /\ retry_pc = "loop" => Len(sleeps) = Len(attempts)
       /\ retry_pc \in {"exhausted", "done"} => Len(sleeps) = Len(attempts) - 1
       /\ retry_pc = "exhausted" =>
             Len(attempts) = 3 /\ \A i \in 1..3 : attempts[i].raised
       /\ retry_pc = "done" =>
             IF attempts[Len(attempts)].raised
             THEN /\ Len(attempts) = 3
                  /\ Val(wrapper_result).raised
                  /\ Val(wrapper_result).value = attempts[3].value
             ELSE Val(wrapper_result) = attempts[Len(attempts)]

\* The second call of the wrapper raised the exception of its third
\* attempt after waiting twice.
C30_Witness ==
    /\ stage = "retry"
    /\ max_retries = 3
    /\ wrapper_calls = 2
    /\ retry_pc = "done"
    /\ Len(attempts) = 3
    /\ Val(wrapper_result).raised
    /\ Val(wrapper_result).value.attempt = 2
    /\ sleeps = <<delay, 2 * delay>>

====
